---- MODULE Spec2Model ----
(***************************************************************************)
(* Orchestration core of the deep research agent: the LangGraph workflow   *)
(* planner -> parallel_researcher (fan out) -> aggregate -> reflection ->  *)
(* (parallel_researcher -> aggregate -> reflection)* -> compiler -> END,   *)
(* the keyed result store and the reflection / routing decision.           *)
(*                                                                         *)
(* Question ids are modelled as the naturals 1, 2, 3, ... ("q2" is 2).     *)
(* An Optional value is a sequence of length 0 (None) or 1 (Some).         *)
(***************************************************************************)
EXTENDS Naturals, Sequences, FiniteSets, TLC

\* Longest research plan the planner's completion returns.
MaxPlanLen == 3
\* Longest weak_answers list an assessment returns.
MaxWeakLen == 2
\* Largest configured max_iterations (configurable.max_iterations).
MaxConfigIter == 3

\* graph.py: the router's own bound.
MAX_ITERATIONS == 2

VARIABLES
    max_iterations,       \* AgentConfig.max_iterations of this run
    stage,                \* the node the run is at, or "done" / "failed"
    research_plan,        \* ResearchState.research_plan (Optional)
    question_answers,     \* ResearchState.question_answers (dict)
    compressed_findings,  \* ResearchState.compressed_findings (dict)
    current_iteration,    \* ResearchState.current_iteration
    agent_analysis,       \* ResearchState.agent_analysis (Optional)
    next_step,            \* ResearchState.next_step
    final_report,         \* ResearchState.final_report (Optional)
    tasks,                \* Send payloads of the current dispatch round
    inflight,             \* indices of tasks dispatched and not yet settled
    updates,              \* index -> update returned by a settled task, not yet merged
    trace,                \* history: the nodes entered so far, in order
    error,                \* history: the node whose exception escaped the run, or ""
    proc,                 \* run_agent.main: what it printed and its exit status
    assessment,           \* history: the assessment the latest reflection produced
    tk,                   \* one researcher_node call followed step by step (TaskSpec)
    rk,                   \* one run of the candidate ranking step (RankSpec)
    ct,                   \* one run of _format_citations (CiteSpec)
    cg,                   \* one run of compiler_node's source gathering (CatalogueSpec)
    rt,                   \* one call of route_after_reflection (RouteSpec)
    pl,                   \* one call of Planner.plan (PlanSpec)
    mg,                   \* one round's updates going through the reducers (MergeSpec)
    sr                    \* the sources of one question's answers over two rounds (SourceSpec)

\* The state of the graph run.
run == <<max_iterations, stage, research_plan, question_answers,
         compressed_findings, current_iteration, agent_analysis, next_step,
         final_report, tasks, inflight, updates, trace, error, proc, assessment>>

\* The state of the component-level specifications.
parts == <<tk, rk, ct, cg, rt, pl, mg, sr>>

vars == <<run, parts>>

None == <<>>
Some(x) == <<x>>

EmptyDict == [k \in {} |-> None]

----------------------------------------------------------------------------
\* Data the external completion service can return

QuestionIds == 1..MaxPlanLen

SubQuestion(q) == [question_id |-> q]

\* A plan of n sub-questions with pairwise distinct ids 1..n (n may be 0).
ResearchPlan(n) == [sub_questions |-> [i \in 1..n |-> SubQuestion(i)]]

Plans == {ResearchPlan(n) : n \in 0..MaxPlanLen}

Suggestions == {"fix"}

WeakAnswer(q, s) == [question_id |-> q, suggestion |-> s]

WeakAnswerValues == {WeakAnswer(q, s) : q \in QuestionIds, s \in Suggestions}

SeqsUpTo(S, n) == UNION {[1..k -> S] : k \in 0..n}

OverallAssessments == {"strong", "adequate", "needs_improvement"}

SuggestedSearchLists == {<<>>, <<"search">>}

\* AgentAnalysis: the fields the routing reads.  weak_answers is whatever the
\* completion returns: ids may repeat and may name no question of the plan.
AgentAnalyses ==
    [overall_assessment : OverallAssessments,
     weak_answers : SeqsUpTo(WeakAnswerValues, MaxWeakLen),
     suggested_searches : SuggestedSearchLists]

----------------------------------------------------------------------------
\* state.py reducers

merge_question_answers_keeps_existing(existing, new) ==
    [k \in (DOMAIN existing) \cup (DOMAIN new) |->
        IF k \in DOMAIN existing THEN existing[k] ELSE new[k]]

merge_question_answers_replaces_store(existing, new) ==
    IF new = EmptyDict THEN existing ELSE new

merge_question_answers(existing, new) ==
    [k \in (DOMAIN existing) \cup (DOMAIN new) |->
        IF k \in DOMAIN new THEN new[k] ELSE existing[k]]

merge_compressed_findings(existing, new) ==
    [k \in (DOMAIN existing) \cup (DOMAIN new) |->
        IF k \in DOMAIN new THEN new[k] ELSE existing[k]]

----------------------------------------------------------------------------
\* graph.py helpers and routers

Send(node, arg) == [node |-> node, arg |-> arg]

Payload(sq, prev_text, prev_sources, suggestion, searches) ==
    [sub_question |-> sq,
     previous_answer |-> prev_text,
     previous_sources |-> prev_sources,
     improvement_suggestion |-> suggestion,
     suggested_searches |-> searches]

\* Send("compiler", state): the compiler reads the run state, not the payload.
NoPayload == Payload(None, "", <<>>, "", <<>>)

_get_weak_answers(analysis) ==
    IF analysis = None THEN <<>> ELSE analysis[1].weak_answers

_get_suggested_searches(analysis) ==
    IF analysis = None THEN <<>> ELSE analysis[1].suggested_searches

_get_answer_data_nothing_stored(answers, q_id) ==
    [text |-> "", sources |-> <<>>]

_get_answer_data(answers, q_id) ==
    IF q_id \notin DOMAIN answers
    THEN [text |-> "", sources |-> <<>>]
    ELSE [text |-> answers[q_id].answer, sources |-> answers[q_id].sources]

route_after_planner_skip_first(plan) ==
    IF plan = None
    THEN <<Send("compiler", NoPayload)>>
    ELSE LET sqs == plan[1].sub_questions
         IN  [i \in 1..(IF Len(sqs) = 0 THEN 0 ELSE Len(sqs) - 1) |->
                Send("parallel_researcher",
                     Payload(Some(sqs[i + 1]), "", <<>>, "", <<>>))]

\* One Send per sub-question; an empty plan gives an empty list of Sends.
route_after_planner(plan) ==
    IF plan = None
    THEN <<Send("compiler", NoPayload)>>
    ELSE LET sqs == plan[1].sub_questions
         IN  [i \in 1..Len(sqs) |->
                Send("parallel_researcher",
                     Payload(Some(sqs[i]), "", <<>>, "", <<>>))]

route_after_reflection_full_fanout(iteration, analysis, step, plan, answers) ==
    LET weak_answers == _get_weak_answers(analysis)
        suggested_searches == _get_suggested_searches(analysis)
    IN  IF step # "re_research" \/ iteration >= MAX_ITERATIONS \/ weak_answers = <<>>
           \/ plan = None
        THEN <<Send("compiler", NoPayload)>>
        ELSE LET sqs == plan[1].sub_questions
             IN  IF sqs = <<>> THEN <<Send("compiler", NoPayload)>>
                 ELSE [i \in 1..Len(sqs) |->
                         LET prev == _get_answer_data(answers, sqs[i].question_id)
                         IN  Send("parallel_researcher",
                                  Payload(Some(sqs[i]), prev.text, prev.sources,
                                          weak_answers[1].suggestion,
                                          suggested_searches))]

route_after_reflection_keeps_unknown_ids(iteration, analysis, step, plan, answers) ==
    LET weak_answers == _get_weak_answers(analysis)
        suggested_searches == _get_suggested_searches(analysis)
    IN  IF step # "re_research" \/ iteration >= MAX_ITERATIONS \/ weak_answers = <<>>
           \/ plan = None
        THEN <<Send("compiler", NoPayload)>>
        ELSE [i \in 1..Len(weak_answers) |->
                LET prev == _get_answer_data(answers, weak_answers[i].question_id)
                IN  Send("parallel_researcher",
                         Payload(Some(SubQuestion(weak_answers[i].question_id)),
                                 prev.text, prev.sources,
                                 weak_answers[i].suggestion,
                                 suggested_searches))]

route_after_reflection(iteration, analysis, step, plan, answers) ==
    LET weak_answers == _get_weak_answers(analysis)
        suggested_searches == _get_suggested_searches(analysis)
        needs_improvement == (step = "re_research")
    IN  IF ~needs_improvement \/ iteration >= MAX_ITERATIONS \/ weak_answers = <<>>
        THEN <<Send("compiler", NoPayload)>>
        ELSE IF plan = None
        THEN <<Send("compiler", NoPayload)>>
        ELSE LET sqs == plan[1].sub_questions
                 ids == {sqs[i].question_id : i \in 1..Len(sqs)}
                 sq_map == [q \in ids |->
                              sqs[CHOOSE i \in 1..Len(sqs) :
                                    /\ sqs[i].question_id = q
                                    /\ \A j \in (i + 1)..Len(sqs) :
                                          sqs[j].question_id # q]]
                 known(wa) == wa.question_id \in ids
                 kept == SelectSeq(weak_answers, known)
                 sends == [i \in 1..Len(kept) |->
                             LET prev == _get_answer_data(answers, kept[i].question_id)
                             IN  Send("parallel_researcher",
                                      Payload(Some(sq_map[kept[i].question_id]),
                                              prev.text, prev.sources,
                                              kept[i].suggestion,
                                              suggested_searches))]
             IN  IF sends # <<>> THEN sends ELSE <<Send("compiler", NoPayload)>>

\* create_research_graph: the unconditional edges.
EdgeTarget_compiler_loops(node) ==
    CASE node = "START" -> "planner"
      [] node = "parallel_researcher" -> "aggregate"
      [] node = "aggregate" -> "reflection"
      [] node = "compiler" -> "reflection"

EdgeTarget(node) ==
    CASE node = "START" -> "planner"
      [] node = "parallel_researcher" -> "aggregate"
      [] node = "aggregate" -> "reflection"
      [] node = "compiler" -> "END"

\* Where a list of Sends returned by a conditional edge takes the run: every
\* Send of these routers names one node; no Send at all ends the run.
SendTarget(sends) == IF sends = <<>> THEN "END" ELSE sends[1].node

StageOf(target) == IF target = "END" THEN "done" ELSE target

----------------------------------------------------------------------------
\* reflection.py

needs_improvement_unbounded(analysis, iteration, max_iter) ==
    /\ analysis.overall_assessment = "needs_improvement"
    /\ analysis.weak_answers # <<>>

needs_improvement(analysis, iteration, max_iter) ==
    /\ analysis.overall_assessment = "needs_improvement"
    /\ analysis.weak_answers # <<>>
    /\ iteration < max_iter

reflection_node_clears_weak_on_compile(analysis, iteration, max_iter) ==
    LET improve == needs_improvement(analysis, iteration, max_iter)
    IN  [agent_analysis |-> IF improve THEN Some(analysis)
                            ELSE Some([analysis EXCEPT !.weak_answers = <<>>]),
         next_step |-> IF improve THEN "re_research" ELSE "compile",
         current_iteration |-> IF improve THEN iteration + 1 ELSE iteration]

reflection_node_counts_every_assessment(analysis, iteration, max_iter) ==
    LET improve == needs_improvement(analysis, iteration, max_iter)
    IN  [agent_analysis |-> Some(analysis),
         next_step |-> IF improve THEN "re_research" ELSE "compile",
         current_iteration |-> iteration + 1]

reflection_node_restarts_count_on_compile(analysis, iteration, max_iter) ==
    LET improve == needs_improvement(analysis, iteration, max_iter)
    IN  [agent_analysis |-> Some(analysis),
         next_step |-> IF improve THEN "re_research" ELSE "compile",
         current_iteration |-> IF improve THEN iteration + 1 ELSE 0]

reflection_node(analysis, iteration, max_iter) ==
    LET improve == needs_improvement(analysis, iteration, max_iter)
    IN  [agent_analysis |-> Some(analysis),
         next_step |-> IF improve THEN "re_research" ELSE "compile",
         current_iteration |-> IF improve THEN iteration + 1 ELSE iteration]

----------------------------------------------------------------------------
\* researcher.py

\* What the services do during one task: they answer, the completion service
\* raises, or the search client raises an exception search_tavily does not catch.
ServiceBehaviours == {"ok", "llm_raises", "search_raises"}

\* SourceMetadata: the id is unique per source, the url may be empty (0).
SourceMetadata(id, url) == [id |-> id, url |-> url]

QuestionAnswer(q, text, sources) ==
    [question_id |-> q, answer |-> text, sources |-> sources]

\* The update of one task, or raised = TRUE when an exception leaves the node.
\* The answer's content is abstracted to the method that produced it.
researcher_node_drops_compressed(payload, env) ==
    LET sq == payload.sub_question[1]
        improve == payload.previous_answer # "" /\ payload.improvement_suggestion # ""
        answer == IF improve
                  THEN QuestionAnswer(sq.question_id, "improve_research", <<"src">>)
                  ELSE QuestionAnswer(sq.question_id, "research_question", <<"src">>)
    IN  IF env # "ok"
        THEN [raised |-> TRUE, question_answers |-> EmptyDict,
              compressed_findings |-> EmptyDict]
        ELSE [raised |-> FALSE,
              question_answers |-> [k \in {sq.question_id} |-> answer],
              compressed_findings |-> EmptyDict]

researcher_node(payload, env) ==
    LET sq == payload.sub_question[1]
        improve == payload.previous_answer # "" /\ payload.improvement_suggestion # ""
        answer == IF improve
                  THEN QuestionAnswer(sq.question_id, "improve_research", <<"src">>)
                  ELSE QuestionAnswer(sq.question_id, "research_question", <<"src">>)
    IN  IF env # "ok"
        THEN [raised |-> TRUE, question_answers |-> EmptyDict,
              compressed_findings |-> EmptyDict]
        ELSE [raised |-> FALSE,
              question_answers |-> [k \in {sq.question_id} |-> answer],
              compressed_findings |->
                  [k \in {sq.question_id} |-> "compress_research"]]

----------------------------------------------------------------------------
\* The run

Init ==
    /\ max_iterations \in 0..MaxConfigIter
    /\ stage = StageOf(EdgeTarget("START"))
    /\ research_plan = None
    /\ question_answers = EmptyDict
    /\ compressed_findings = EmptyDict
    /\ current_iteration = 0
    /\ agent_analysis = None
    /\ next_step = ""
    /\ final_report = None
    /\ tasks = <<>>
    /\ inflight = {}
    /\ updates = EmptyDict
    /\ trace = <<"planner">>
    /\ error = ""
    /\ proc = [stdout |-> <<"Researching">>, exit_status |-> None]
    /\ assessment = None
    /\ tk = None
    /\ rk = None
    /\ ct = None
    /\ cg = None
    /\ rt = None
    /\ pl = None
    /\ mg = None
    /\ sr = None

\* Enter the node(s) a list of Sends names.
Dispatch(sends) ==
    LET target == SendTarget(sends)
    IN  /\ stage' = StageOf(target)
        /\ trace' = IF target = "END" THEN trace ELSE Append(trace, target)
        /\ IF target = "parallel_researcher"
           THEN /\ tasks' = [i \in 1..Len(sends) |-> sends[i].arg]
                /\ inflight' = 1..Len(sends)
           ELSE /\ tasks' = <<>>
                /\ inflight' = {}
        /\ updates' = EmptyDict

\* planner_node, then the conditional edge route_after_planner.
Planner ==
    /\ UNCHANGED <<parts, proc, assessment>>
    /\ stage = "planner"
    /\ \E plan \in Plans :
          /\ research_plan' = Some(plan)
          /\ Dispatch(route_after_planner(Some(plan)))
    /\ UNCHANGED <<max_iterations, question_answers, compressed_findings,
                   current_iteration, agent_analysis, next_step, final_report,
                   error>>

\* One parallel_researcher task of the round runs to its end.
ResearchTask ==
    /\ UNCHANGED <<parts, proc, assessment>>
    /\ stage = "parallel_researcher"
    /\ \E i \in inflight, env \in ServiceBehaviours :
          LET result == researcher_node(tasks[i], env)
          IN  IF result.raised
              THEN /\ stage' = "failed"
                   /\ error' = "parallel_researcher"
                   /\ UNCHANGED <<inflight, updates>>
              ELSE /\ inflight' = inflight \ {i}
                   /\ updates' = [k \in (DOMAIN updates) \cup {i} |->
                                     IF k = i THEN result ELSE updates[k]]
                   /\ UNCHANGED <<stage, error>>
    /\ UNCHANGED <<max_iterations, research_plan, question_answers,
                   compressed_findings, current_iteration, agent_analysis,
                   next_step, final_report, tasks, trace>>

RECURSIVE MergeAnswers(_, _, _)
MergeAnswers(store, ups, idx) ==
    IF idx = <<>> THEN store
    ELSE MergeAnswers(merge_question_answers(store, ups[Head(idx)].question_answers),
                      ups, Tail(idx))

RECURSIVE MergeCompressed(_, _, _)
MergeCompressed(store, ups, idx) ==
    IF idx = <<>> THEN store
    ELSE MergeCompressed(
            merge_compressed_findings(store, ups[Head(idx)].compressed_findings),
            ups, Tail(idx))

\* The indices of a set of naturals in ascending order.
RECURSIVE Ascending(_)
Ascending(S) ==
    IF S = {} THEN <<>>
    ELSE LET m == CHOOSE x \in S : \A y \in S : x <= y
         IN  <<m>> \o Ascending(S \ {m})

BarrierReady_any_settled(pending, settled) == DOMAIN settled # {}

BarrierReady_never(pending, settled) == FALSE

\* The edge parallel_researcher -> aggregate fires when the round's step ends:
\* every task of the round has returned.
BarrierReady(pending, settled) == pending = {}

\* End of the round: the tasks' updates go through the reducers, in task order.
Barrier ==
    /\ UNCHANGED <<parts, proc, assessment>>
    /\ stage = "parallel_researcher"
    /\ BarrierReady(inflight, updates)
    /\ question_answers' =
          MergeAnswers(question_answers, updates, Ascending(DOMAIN updates))
    /\ compressed_findings' =
          MergeCompressed(compressed_findings, updates, Ascending(DOMAIN updates))
    /\ updates' = EmptyDict
    /\ stage' = StageOf(EdgeTarget("parallel_researcher"))
    /\ trace' = Append(trace, EdgeTarget("parallel_researcher"))
    /\ UNCHANGED <<max_iterations, research_plan, current_iteration,
                   agent_analysis, next_step, final_report, tasks, inflight, error>>

Aggregate_drops_last_question ==
    /\ UNCHANGED <<parts, proc, assessment>>
    /\ stage = "aggregate"
    /\ stage' = StageOf(EdgeTarget("aggregate"))
    /\ trace' = Append(trace, EdgeTarget("aggregate"))
    /\ research_plan' =
          IF research_plan = None \/ research_plan[1].sub_questions = <<>>
          THEN research_plan
          ELSE Some(ResearchPlan(Len(research_plan[1].sub_questions) - 1))
    /\ UNCHANGED <<max_iterations, question_answers,
                   compressed_findings, current_iteration, agent_analysis,
                   next_step, final_report, tasks, inflight, updates, error>>

\* aggregate_research returns no update.
Aggregate ==
    /\ UNCHANGED <<parts, proc, assessment>>
    /\ stage = "aggregate"
    /\ stage' = StageOf(EdgeTarget("aggregate"))
    /\ trace' = Append(trace, EdgeTarget("aggregate"))
    /\ UNCHANGED <<max_iterations, research_plan, question_answers,
                   compressed_findings, current_iteration, agent_analysis,
                   next_step, final_report, tasks, inflight, updates, error>>

\* reflection_node, then the conditional edge route_after_reflection, which
\* reads the state with the node's update applied.
Reflection ==
    /\ UNCHANGED <<parts, proc>>
    /\ stage = "reflection"
    /\ \E analysis \in AgentAnalyses :
          LET update == reflection_node(analysis, current_iteration, max_iterations)
          IN  /\ assessment' = Some(analysis)
              /\ agent_analysis' = update.agent_analysis
              /\ next_step' = update.next_step
              /\ current_iteration' = update.current_iteration
              /\ Dispatch(route_after_reflection(update.current_iteration,
                                                 update.agent_analysis,
                                                 update.next_step,
                                                 research_plan, question_answers))
    /\ UNCHANGED <<max_iterations, research_plan, question_answers,
                   compressed_findings, final_report, error>>

\* compiler_node, then the edge compiler -> END.
Compiler ==
    /\ UNCHANGED <<parts, proc, assessment>>
    /\ stage = "compiler"
    /\ final_report' = Some("report")
    /\ stage' = StageOf(EdgeTarget("compiler"))
    /\ trace' = IF EdgeTarget("compiler") = "END" THEN trace
                ELSE Append(trace, EdgeTarget("compiler"))
    /\ UNCHANGED <<max_iterations, research_plan, question_answers,
                   compressed_findings, current_iteration, agent_analysis,
                   next_step, tasks, inflight, updates, error>>

\* run_agent.main after graph.invoke returned: the completion line, then
\* result.get("final_report", "No report generated"); the process ends with
\* status 0.
MainReturn ==
    /\ stage = "done"
    /\ proc.exit_status = None
    /\ proc' = [stdout |-> proc.stdout \o
                            <<"Complete!",
                              IF final_report = None THEN "No report generated"
                              ELSE final_report[1]>>,
                exit_status |-> Some(0)]
    /\ UNCHANGED <<max_iterations, stage, research_plan, question_answers,
                   compressed_findings, current_iteration, agent_analysis,
                   next_step, final_report, tasks, inflight, updates, trace,
                   error, assessment, parts>>

\* run_agent.main when an exception left graph.invoke: the error line, then
\* sys.exit(1).
MainExcept ==
    /\ stage = "failed"
    /\ proc.exit_status = None
    /\ proc' = [stdout |-> Append(proc.stdout, "Error"), exit_status |-> Some(1)]
    /\ UNCHANGED <<max_iterations, stage, research_plan, question_answers,
                   compressed_findings, current_iteration, agent_analysis,
                   next_step, final_report, tasks, inflight, updates, trace,
                   error, assessment, parts>>

Next ==
    \/ Planner
    \/ ResearchTask
    \/ Barrier
    \/ Aggregate
    \/ Reflection
    \/ Compiler
    \/ MainReturn
    \/ MainExcept

Spec == Init /\ [][Next]_vars

\* The same run when it does not stop while a node, a task or the entry point
\* is able to take its step: every invocation returns and the next one starts.
FairSpec == Spec /\ WF_vars(Next)

----------------------------------------------------------------------------
\* Quantities read off the history

\* Dispatch rounds entered so far.
ResearchRounds ==
    Cardinality({i \in 1..Len(trace) : trace[i] = "parallel_researcher"})

\* Rounds entered from the reflection stage.
ReResearchRounds ==
    Cardinality({i \in 1..(Len(trace) - 1) :
                    trace[i] = "reflection" /\ trace[i + 1] = "parallel_researcher"})

\* Rounds that passed the fan-in barrier.
CompletedRounds ==
    Cardinality({i \in 1..(Len(trace) - 1) :
                    trace[i] = "parallel_researcher" /\ trace[i + 1] = "aggregate"})

PlanIds ==
    IF research_plan = None THEN {}
    ELSE {research_plan[1].sub_questions[i].question_id :
            i \in 1..Len(research_plan[1].sub_questions)}

TaskId(i) == tasks[i].sub_question[1].question_id

Occurrences(f, n, x) == Cardinality({i \in 1..n : f[i] = x})

----------------------------------------------------------------------------
\* C1 (for assessments whose weak answers all name questions of the plan):
\* the step out of the reflection stage enters a re-research round if and only
\* if the assessment just produced is needs_improvement, its weak_answers is
\* non-empty and the iteration count before the assessment is below
\* max_iterations; otherwise it enters the compiler.
C1_ReResearchIff ==
    [][(/\ stage = "reflection"
        /\ stage' # "reflection"
        /\ \A i \in 1..Len(agent_analysis'[1].weak_answers) :
              agent_analysis'[1].weak_answers[i].question_id \in PlanIds)
       => LET a == agent_analysis'[1]
              rule == /\ a.overall_assessment = "needs_improvement"
                      /\ a.weak_answers # <<>>
                      /\ current_iteration < max_iterations
          IN  /\ rule => stage' = "parallel_researcher"
              /\ ~rule => stage' = "compiler"]_vars

\* C2 (for runs whose latest assessment names only questions of the plan):
\* current_iteration equals the number of re-research rounds dispatched so
\* far; it is never raised on a path that goes to the compiler.
C2_IterationCountsRounds ==
    (\A i \in 1..Len(_get_weak_answers(agent_analysis)) :
        _get_weak_answers(agent_analysis)[i].question_id \in PlanIds)
    => current_iteration = ReResearchRounds

\* C3: a run enters at most max_iterations re-research rounds, so at most
\* 1 + max_iterations research rounds, whatever the assessments say.
C3_IterationBound ==
    /\ ReResearchRounds <= max_iterations
    /\ ResearchRounds <= 1 + max_iterations

\* The budget is used up and the last assessment still asks for more.
C3_Witness ==
    /\ stage = "done"
    /\ max_iterations = 1
    /\ ReResearchRounds = 1
    /\ agent_analysis[1].overall_assessment = "needs_improvement"
    /\ agent_analysis[1].weak_answers # <<>>

\* C4: the nodes run in the order planner, research round, aggregate,
\* reflection, (research round, aggregate, reflection)*, compiler: the planner
\* is first and never re-entered, nothing runs after the compiler, and the
\* compiler runs at most once.
StageOrder ==
    {<<"planner", "parallel_researcher">>, <<"planner", "compiler">>,
     <<"parallel_researcher", "aggregate">>, <<"aggregate", "reflection">>,
     <<"reflection", "parallel_researcher">>, <<"reflection", "compiler">>}

C4_StageOrder ==
    /\ trace[1] = "planner"
    /\ \A i \in 1..(Len(trace) - 1) : <<trace[i], trace[i + 1]>> \in StageOrder
    /\ Occurrences(trace, Len(trace), "planner") = 1
    /\ Occurrences(trace, Len(trace), "compiler") <= 1
    /\ stage \in {"planner", "parallel_researcher", "aggregate", "reflection",
                  "compiler"} => trace[Len(trace)] = stage

\* A run that went round the loop once and compiled.
C4_Witness ==
    /\ stage = "done"
    /\ final_report # None
    /\ ReResearchRounds = 1
    /\ trace[Len(trace)] = "compiler"

\* C5: after planning zero sub-questions the run is at the compiler with an
\* empty result store, and it ends with final_report set.
C5_EmptyPlanCompiles ==
    (/\ research_plan # None
     /\ research_plan[1].sub_questions = <<>>)
    => /\ question_answers = EmptyDict
       /\ stage = "compiler" \/ (stage = "done" /\ final_report # None)

\* C6: a failing research task does not abort the run; the exception does not
\* leave the task.
C6_TaskFailureContained == ~(stage = "failed" /\ error = "parallel_researcher")

\* C7: no two tasks of one dispatch round carry the same question_id.
C7_DistinctTaskIds ==
    \A i, j \in 1..Len(tasks) : i # j => TaskId(i) # TaskId(j)

\* C8: aggregate and reflection run only when every task of the round has
\* settled and its update is merged into the result store.
C8_FanInBarrier ==
    stage \in {"aggregate", "reflection"}
    => /\ inflight = {}
       /\ DOMAIN updates = {}
       /\ \A i \in 1..Len(tasks) :
             LET update == researcher_node(tasks[i], "ok")
             IN  /\ TaskId(i) \in DOMAIN question_answers
                 /\ TaskId(i) \in DOMAIN compressed_findings
                 /\ question_answers[TaskId(i)] = update.question_answers[TaskId(i)]
                 /\ compressed_findings[TaskId(i)] =
                       update.compressed_findings[TaskId(i)]

\* Reflection is about to read the store of a round of several tasks.
C8_Witness ==
    /\ stage = "reflection"
    /\ Len(tasks) >= 2
    /\ ReResearchRounds = 1

\* C9: when no round is in progress the two mappings have the same keys, and
\* every sub-question that has been through a round is a key of both.
C9_StoreKeysAgree ==
    stage # "parallel_researcher"
    => /\ DOMAIN question_answers = DOMAIN compressed_findings
       /\ CompletedRounds >= 1 => PlanIds \subseteq DOMAIN question_answers

C9_Witness ==
    /\ stage = "reflection"
    /\ Cardinality(DOMAIN question_answers) = MaxPlanLen
    /\ DOMAIN compressed_findings = DOMAIN question_answers

\* C10: the initial round dispatches one task per sub-question of the plan:
\* the multiset of task ids is the multiset of plan ids.
C10_InitialFanOut ==
    (stage = "parallel_researcher" /\ ReResearchRounds = 0)
    => LET sqs == research_plan[1].sub_questions
           planId == [i \in 1..Len(sqs) |-> sqs[i].question_id]
           taskId == [i \in 1..Len(tasks) |-> TaskId(i)]
       IN  /\ Len(tasks) = Len(sqs)
           /\ \A q \in QuestionIds :
                 Occurrences(taskId, Len(tasks), q) = Occurrences(planId, Len(sqs), q)

C10_Witness ==
    /\ stage = "parallel_researcher"
    /\ ReResearchRounds = 0
    /\ Len(tasks) = MaxPlanLen
    /\ inflight = 1..MaxPlanLen

----------------------------------------------------------------------------
\* The weak-answer entries of the latest assessment that name a plan question.
KnownWeakAnswers ==
    LET InPlan(wa) == wa.question_id \in PlanIds
    IN  SelectSeq(_get_weak_answers(agent_analysis), InPlan)

InReResearchRound == stage = "parallel_researcher" /\ ReResearchRounds >= 1

\* C11 as claimed: a re-research round dispatches exactly len(weak_answers)
\* tasks, one per weak-answer entry, also when an entry names an id that is
\* not in the plan.
C11_OneTaskPerWeakAnswer ==
    InReResearchRound => Len(tasks) = Len(_get_weak_answers(agent_analysis))

\* C11 amended: a re-research round dispatches exactly one task per
\* weak-answer entry whose question_id is in the plan, in list order; entries
\* naming an unknown id are skipped and no other question is dispatched.
C11_OneTaskPerKnownWeakAnswer ==
    InReResearchRound
    => /\ Len(tasks) = Len(KnownWeakAnswers)
       /\ \A i \in 1..Len(tasks) :
             /\ TaskId(i) = KnownWeakAnswers[i].question_id
             /\ tasks[i].improvement_suggestion = KnownWeakAnswers[i].suggestion

\* A round in which one weak answer was dispatched and an unknown one skipped.
C11_Witness ==
    /\ InReResearchRound
    /\ Len(tasks) = 1
    /\ Len(_get_weak_answers(agent_analysis)) = 2
    /\ Len(research_plan[1].sub_questions) >= 2

----------------------------------------------------------------------------
\* TaskSpec: one call of researcher_node, followed through its phases.

\* Longest list of suggested searches / of generated query lines.
MaxSearches == 5

\* researcher.py: queries[:4], suggested_searches[:4].
QUERY_LIMIT == 4

Take(seq, n) == SubSeq(seq, 1, IF Len(seq) < n THEN Len(seq) ELSE n)

\* The graph run does not move while a component is examined on its own.
RunIdle ==
    /\ max_iterations = 0
    /\ stage = "idle"
    /\ research_plan = None
    /\ question_answers = EmptyDict
    /\ compressed_findings = EmptyDict
    /\ current_iteration = 0
    /\ agent_analysis = None
    /\ next_step = ""
    /\ final_report = None
    /\ tasks = <<>>
    /\ inflight = {}
    /\ updates = EmptyDict
    /\ trace = <<>>
    /\ error = ""
    /\ proc = [stdout |-> <<>>, exit_status |-> None]
    /\ assessment = None

\* A list of n distinct suggested searches.
SuggestedSearches(n) == [i \in 1..n |-> <<"suggested_search", i>>]

\* The n query lines a completion returns to generate_search_queries.
GeneratedLines(n) == [i \in 1..n |-> <<"generated_query", i>>]

\* Answer texts a stored answer can have: a completion may return no text.
StoredTexts == {"", "previous answer"}

TaskSuggestions == {"", "fix"}

\* The payload route_after_planner sends for the one question of a plan.
InitialPayload == route_after_planner(Some(ResearchPlan(1)))[1].arg

\* The payload route_after_reflection sends for a weak answer on question 1,
\* given the stored answer's text, the weak answer's suggestion and the
\* assessment's suggested_searches.
ReResearchPayload(text, suggestion, searches) ==
    route_after_reflection(
        1,
        Some([overall_assessment |-> "needs_improvement",
              weak_answers |-> <<WeakAnswer(1, suggestion)>>,
              suggested_searches |-> searches]),
        "re_research",
        Some(ResearchPlan(1)),
        [k \in {1} |-> QuestionAnswer(1, text, <<SourceMetadata("previous source", 1)>>)])[1].arg

\* What the search provider does on one call: it returns hits with a url,
\* hits without one, no hit, or it raises.
SearchBehaviours ==
    {"results", "results_without_url", "no_results",
     "ConnectionError", "TimeoutError", "ValueError", "other_error"}

\* What the extraction provider does on the one call of a task.
ExtractBehaviours ==
    {"content", "no_content",
     "ConnectionError", "TimeoutError", "ValueError", "other_error"}

\* The exceptions search_tavily and extract_full_content catch.
CaughtProviderErrors == {"ConnectionError", "TimeoutError", "ValueError"}

\* Candidate ranking of Researcher.research_question / improve_research:
\* dedupe by URL, sort by score, keep the top 10.

MaxHits == 3      \* longest hit list enumerated in full
MaxUrl == 2       \* distinct URLs in those lists
MaxScore == 2     \* scores range over 0..MaxScore (0 is also a missing score)
ExtraHits == 1    \* how far the long hit lists exceed the top-10 cut
TOP_K == 10

\* r.get("url") of a hit without a url, or with an empty one: falsy.
NoUrl == 0

Hit(url, score, title) == [url |-> url, score |-> score, title |-> title]

\* A hit list of up to MaxHits hits, from the url and score of each position;
\* the title records the input position, so two hits of one list are never
\* the same record.
ShortHitList(f) == [i \in DOMAIN f |-> Hit(f[i][1], f[i][2], i)]

\* A hit list with more than TOP_K distinct URLs, from the score (1 or 2) of
\* each position.
LongHitList(f) == [i \in DOMAIN f |-> Hit(i, f[i], i)]

\* One iteration of the dedupe loop. The dict is the sequence of its values in
\* insertion order; assigning to a present key keeps the key's position.
url_to_result_step_keeps_latest(store, r) ==
    IF r.url = NoUrl THEN store
    ELSE IF \E k \in 1..Len(store) : store[k].url = r.url
         THEN LET k == CHOOSE k \in 1..Len(store) : store[k].url = r.url
              IN  [store EXCEPT ![k] = r]
         ELSE Append(store, r)

url_to_result_step(store, r) ==
    IF r.url = NoUrl THEN store
    ELSE IF \E k \in 1..Len(store) : store[k].url = r.url
         THEN LET k == CHOOSE k \in 1..Len(store) : store[k].url = r.url
              IN  IF r.score > store[k].score
                  THEN [store EXCEPT ![k] = r]
                  ELSE store
         ELSE Append(store, r)

RECURSIVE url_to_result_upto(_, _)
url_to_result_upto(hits, n) ==
    IF n = 0 THEN <<>>
    ELSE url_to_result_step(url_to_result_upto(hits, n - 1), hits[n])

\* The dedupe loop over all_results; the result is url_to_result.values().
url_to_result(all_results) == url_to_result_upto(all_results, Len(all_results))

\* Insert r behind every hit whose score is at least r's.
InsertByScore(sorted, r) ==
    LET ahead == Cardinality({k \in 1..Len(sorted) : sorted[k].score >= r.score})
    IN  SubSeq(sorted, 1, ahead) \o <<r>> \o SubSeq(sorted, ahead + 1, Len(sorted))

\* Insert r in front of every hit whose score is at most r's.
InsertByScoreTiesFirst(sorted, r) ==
    LET ahead == Cardinality({k \in 1..Len(sorted) : sorted[k].score > r.score})
    IN  SubSeq(sorted, 1, ahead) \o <<r>> \o SubSeq(sorted, ahead + 1, Len(sorted))

RECURSIVE sorted_upto_ties_reversed(_, _)
sorted_upto_ties_reversed(hits, n) ==
    IF n = 0 THEN <<>>
    ELSE InsertByScoreTiesFirst(sorted_upto_ties_reversed(hits, n - 1), hits[n])

RECURSIVE sorted_upto(_, _)
sorted_upto(hits, n) ==
    IF n = 0 THEN <<>>
    ELSE InsertByScore(sorted_upto(hits, n - 1), hits[n])

sorted_results_ties_reversed(values) == sorted_upto_ties_reversed(values, Len(values))

\* sorted(values, key=score, reverse=True): descending and stable.
sorted_results(values) == sorted_upto(values, Len(values))

top_results_uncut(sorted) == sorted

\* sorted_results[:10]
top_results(sorted) == Take(sorted, TOP_K)

\* The whole ranking step.
rank_results(all_results) == top_results(sorted_results(url_to_result(all_results)))

\* Researcher.extract_findings, the source list: one source per result, with a
\* fresh id (uuid) and the result's url; call tells the calls' ids apart.
extract_findings_sources(search_results, call) ==
    [i \in 1..Len(search_results) |->
        SourceMetadata(<<call, i>>, search_results[i].url)]

\* Hits one search call returns when the provider has results.
MaxPageHits == 4

\* extract_full_content: urls[:10].
EXTRACT_LIMIT == 10

\* The hits search call number call of a task returns: a page of hits whose
\* first url is the last url of the previous call's page, one hit without a
\* url, or nothing.
SearchPage(call, returned) ==
    IF returned = "results"
    THEN [j \in 1..MaxPageHits |->
            Hit((MaxPageHits - 1) * (call - 1) + j, j, <<call, j>>)]
    ELSE IF returned = "results_without_url"
    THEN <<Hit(NoUrl, 1, <<call, 1>>)>>
    ELSE <<>>

\* top_urls = [r["url"] for r in top_results if r.get("url")]
top_urls(results) ==
    LET has_url(r) == r.url # NoUrl
        kept == SelectSeq(results, has_url)
    IN  [i \in 1..Len(kept) |-> kept[i].url]

\* The queries the search loop goes through: queries[:4] in
\* research_question, every query in improve_research.
search_loop_queries(branch, queries) ==
    IF branch = "research_question" THEN Take(queries, QUERY_LIMIT) ELSE queries

\* A call that has not been made.
NoCall == [provider |-> "", returned |-> ""]

NewTask(round, payload) ==
    [pc |-> "start",
     round |-> round,
     payload |-> payload,
     branch |-> "",
     query_generation |-> FALSE,
     queries |-> <<>>,
     searches |-> 0,
     last_search |-> NoCall,
     hits |-> "none",
     all_results |-> <<>>,
     extract_calls |-> 0,
     extract_urls |-> <<>>,
     last_extract |-> NoCall,
     findings |-> "none",
     finding_calls |-> 0,
     synthesis_calls |-> 0,
     new_sources |-> <<>>,
     raised_by |-> "",
     answer |-> None,
     compressed |-> None]

TaskInit ==
    /\ RunIdle
    /\ rk = None
    /\ ct = None
    /\ cg = None
    /\ rt = None
    /\ pl = None
    /\ mg = None
    /\ sr = None
    /\ \/ tk = Some(NewTask("initial", InitialPayload))
       \/ \E text \in StoredTexts, suggestion \in TaskSuggestions,
             n \in 0..MaxSearches :
             tk = Some(NewTask("re_research",
                               ReResearchPayload(text, suggestion,
                                                 SuggestedSearches(n))))

\* Researcher.generate_search_queries: the completion's lines, at most 4.
generate_search_queries(lines) == Take(lines, QUERY_LIMIT)

\* Researcher.improve_research: the query set.
improve_queries_every_suggested_search(suggested_searches, improvement_suggestion) ==
    IF suggested_searches # <<>>
    THEN suggested_searches
    ELSE <<<<"improvement_suggestion", improvement_suggestion>>>>

improve_queries(suggested_searches, improvement_suggestion) ==
    IF suggested_searches # <<>>
    THEN Take(suggested_searches, QUERY_LIMIT)
    ELSE <<<<"improvement_suggestion", improvement_suggestion>>>>

\* Researcher answers with fixed fields.
NoResultsAnswer_with_defaults(sq) ==
    [question_id |-> sq.question_id, answer |-> "No search results found.",
     key_findings |-> "none", sources |-> <<>>,
     confidence |-> "medium", completeness |-> "partial"]

NoResultsAnswer(sq) ==
    [question_id |-> sq.question_id, answer |-> "No search results found.",
     key_findings |-> "none", sources |-> <<>>,
     confidence |-> "low", completeness |-> "insufficient"]

InsufficientAnswer(sq) ==
    [question_id |-> sq.question_id,
     answer |-> "Insufficient information found to answer this question.",
     key_findings |-> "none", sources |-> <<>>,
     confidence |-> "low", completeness |-> "insufficient"]

_make_answer(sq, answer, findings, sources) ==
    [question_id |-> sq.question_id, answer |-> answer,
     key_findings |-> findings, sources |-> sources,
     confidence |-> "medium", completeness |-> "partial"]

SynthesizedAnswer(sq, text, sources) ==
    [question_id |-> sq.question_id, answer |-> text,
     key_findings |-> "some", sources |-> sources,
     confidence |-> "assessed", completeness |-> "assessed"]

_merge_sources_appends_all(new, prev) == new \o prev

\* Researcher._merge_sources: the new sources, then each previous one whose
\* url is not yet among the sources collected.
RECURSIVE _merge_sources(_, _)
_merge_sources(new, prev) ==
    IF prev = <<>> THEN new
    ELSE LET seen == {new[i].url : i \in 1..Len(new)}
         IN  _merge_sources(IF Head(prev).url \in seen THEN new
                            ELSE Append(new, Head(prev)),
                            Tail(prev))

\* Researcher.search_tavily: the provider's hits, an empty list when it raises
\* a caught error; any other exception leaves the wrapper.
search_tavily_propagates(provider) ==
    IF provider \in {"results", "results_without_url"}
    THEN [raised |-> FALSE, returned |-> provider]
    ELSE IF provider = "no_results"
    THEN [raised |-> FALSE, returned |-> "empty"]
    ELSE [raised |-> TRUE, returned |-> ""]

search_tavily(provider) ==
    IF provider \in {"results", "results_without_url"}
    THEN [raised |-> FALSE, returned |-> provider]
    ELSE IF provider \in CaughtProviderErrors \cup {"no_results"}
    THEN [raised |-> FALSE, returned |-> "empty"]
    ELSE [raised |-> TRUE, returned |-> ""]

\* Researcher.extract_full_content: no call for an empty url list; the
\* provider's contents, an empty mapping when it raises a caught error.
extract_full_content(urls, provider) ==
    IF urls = <<>>
    THEN [called |-> FALSE, urls |-> <<>>, raised |-> FALSE, returned |-> "empty"]
    ELSE LET sent == Take(urls, EXTRACT_LIMIT)
         IN  IF provider = "content"
             THEN [called |-> TRUE, urls |-> sent, raised |-> FALSE,
                   returned |-> "content"]
             ELSE IF provider \in CaughtProviderErrors \cup {"no_content"}
             THEN [called |-> TRUE, urls |-> sent, raised |-> FALSE,
                   returned |-> "empty"]
             ELSE [called |-> TRUE, urls |-> sent, raised |-> TRUE,
                   returned |-> ""]

\* all_results after one more call's hits were appended.
ExtendHits(hits, returned) ==
    IF returned = "results" \/ hits = "results" THEN "results"
    ELSE IF returned = "results_without_url" \/ hits = "results_without_url"
    THEN "results_without_url"
    ELSE "none"

\* researcher_node up to the query set: the branch decision, then either
\* generate_search_queries (a completion call) or the suggested searches.
TaskStart ==
    /\ tk # None /\ tk[1].pc = "start"
    /\ LET t == tk[1]
           p == t.payload
       IN  IF p.previous_answer # "" /\ p.improvement_suggestion # ""
           THEN tk' = Some([t EXCEPT
                    !.pc = "search",
                    !.branch = "improve_research",
                    !.queries = improve_queries(p.suggested_searches,
                                                p.improvement_suggestion)])
           ELSE \E n \in 0..MaxSearches, llm \in {"ok", "raises"} :
                  tk' = Some([t EXCEPT
                    !.pc = IF llm = "ok" THEN "search" ELSE "raised",
                    !.raised_by = IF llm = "ok" THEN "" ELSE "completion",
                    !.branch = "research_question",
                    !.query_generation = TRUE,
                    !.queries = IF llm = "ok"
                                THEN generate_search_queries(GeneratedLines(n))
                                ELSE <<>>])
    /\ UNCHANGED <<run, rk, ct, cg, rt, pl, mg, sr>>

\* The search loop: one search_tavily call, for the next query.
TaskSearch ==
    /\ tk # None /\ tk[1].pc = "search"
    /\ tk[1].searches < Len(search_loop_queries(tk[1].branch, tk[1].queries))
    /\ \E provider \in SearchBehaviours :
          LET t == tk[1]
              call == search_tavily(provider)
          IN  tk' = Some(
                IF call.raised
                THEN [t EXCEPT !.pc = "raised", !.raised_by = "search",
                               !.searches = t.searches + 1,
                               !.last_search = [provider |-> provider,
                                                returned |-> "exception"]]
                ELSE [t EXCEPT !.searches = t.searches + 1,
                               !.last_search = [provider |-> provider,
                                                returned |-> call.returned],
                               !.hits = ExtendHits(t.hits, call.returned),
                               !.all_results =
                                  t.all_results \o
                                     SearchPage(t.searches + 1, call.returned)])
    /\ UNCHANGED <<run, rk, ct, cg, rt, pl, mg, sr>>

\* After the loop: the test on all_results, then dedupe, sort and top 10.
TaskRank ==
    /\ tk # None /\ tk[1].pc = "search"
    /\ tk[1].searches = Len(search_loop_queries(tk[1].branch, tk[1].queries))
    /\ LET t == tk[1]
           sq == t.payload.sub_question[1]
       IN  tk' = Some(
             IF t.all_results = <<>>
             THEN [t EXCEPT
                     !.pc = "compress",
                     !.answer =
                        IF t.branch = "improve_research"
                        THEN Some(_make_answer(sq, t.payload.previous_answer,
                                               "none", <<>>))
                        ELSE Some(NoResultsAnswer(sq))]
             ELSE [t EXCEPT !.pc = "extract"])
    /\ UNCHANGED <<run, rk, ct, cg, rt, pl, mg, sr>>

\* The one extract_full_content call on the top urls.
TaskExtract ==
    /\ tk # None /\ tk[1].pc = "extract"
    /\ \E provider \in ExtractBehaviours :
          LET t == tk[1]
              call == extract_full_content(top_urls(rank_results(t.all_results)),
                                           provider)
              made == IF call.called THEN 1 ELSE 0
              log == IF call.called
                     THEN [provider |-> provider,
                           returned |-> IF call.raised THEN "exception"
                                        ELSE call.returned]
                     ELSE NoCall
          IN  tk' = Some(
                IF call.raised
                THEN [t EXCEPT !.pc = "raised", !.raised_by = "extract",
                               !.extract_calls = t.extract_calls + made,
                               !.extract_urls = call.urls,
                               !.last_extract = log]
                ELSE [t EXCEPT !.pc = "findings",
                               !.extract_calls = t.extract_calls + made,
                               !.extract_urls = call.urls,
                               !.last_extract = log])
    /\ UNCHANGED <<run, rk, ct, cg, rt, pl, mg, sr>>

\* Researcher.extract_findings: nothing for an empty result list, otherwise
\* one source per result and one completion call; a caught parsing error
\* falls back to the sources that have content.
TaskFindings ==
    /\ tk # None /\ tk[1].pc = "findings"
    /\ LET t == tk[1]
       IN  IF rank_results(t.all_results) = <<>>
           THEN tk' = Some([t EXCEPT !.pc = "synthesize"])
           ELSE \E llm \in {"findings", "no_findings", "caught_error", "raises"},
                   content \in BOOLEAN :
                  tk' = Some(
                    IF llm = "raises"
                    THEN [t EXCEPT !.pc = "raised", !.raised_by = "completion",
                                   !.finding_calls = t.finding_calls + 1]
                    ELSE [t EXCEPT
                            !.pc = "synthesize",
                            !.finding_calls = t.finding_calls + 1,
                            !.new_sources =
                               extract_findings_sources(
                                  rank_results(t.all_results), t.branch),
                            !.findings =
                               IF llm = "findings" THEN "some"
                               ELSE IF llm = "caught_error"
                                       /\ (content \/ t.last_extract.returned = "content")
                               THEN "some"
                               ELSE "none"])
    /\ UNCHANGED <<run, rk, ct, cg, rt, pl, mg, sr>>

\* The answer: synthesize_answer in the initial branch; in improve_research
\* the previous answer when there are no findings, else _synthesize_improved
\* and _merge_sources.
TaskSynthesize ==
    /\ tk # None /\ tk[1].pc = "synthesize"
    /\ LET t == tk[1]
           sq == t.payload.sub_question[1]
       IN  IF t.findings = "none"
           THEN tk' = Some([t EXCEPT
                   !.pc = "compress",
                   !.answer =
                      IF t.branch = "improve_research"
                      THEN Some(_make_answer(sq, t.payload.previous_answer,
                                             "none", t.payload.previous_sources))
                      ELSE Some(InsufficientAnswer(sq))])
           ELSE \E llm \in {"ok", "raises"} :
                  tk' = Some(
                    IF llm = "raises"
                    THEN [t EXCEPT !.pc = "raised", !.raised_by = "completion",
                                   !.synthesis_calls = t.synthesis_calls + 1]
                    ELSE [t EXCEPT
                            !.pc = "compress",
                            !.synthesis_calls = t.synthesis_calls + 1,
                            !.answer =
                               IF t.branch = "improve_research"
                               THEN Some(SynthesizedAnswer(
                                      sq, "improved answer",
                                      _merge_sources(t.new_sources,
                                                     t.payload.previous_sources)))
                               ELSE Some(SynthesizedAnswer(sq, "synthesized answer",
                                                           t.new_sources))])
    /\ UNCHANGED <<run, rk, ct, cg, rt, pl, mg, sr>>

\* Researcher.compress_research and the node's return value.
TaskCompress ==
    /\ tk # None /\ tk[1].pc = "compress"
    /\ LET t == tk[1]
           a == t.answer[1]
       IN  IF a.sources = <<>>
           THEN tk' = Some([t EXCEPT !.pc = "done",
                                     !.compressed = Some("No sources found.")])
           ELSE \E llm \in {"ok", "raises"} :
                  tk' = Some([t EXCEPT
                           !.pc = "done",
                           !.compressed = IF llm = "ok"
                                          THEN Some("compressed research")
                                          ELSE Some(a.answer)])
    /\ UNCHANGED <<run, rk, ct, cg, rt, pl, mg, sr>>

TaskNext ==
    \/ TaskStart
    \/ TaskSearch
    \/ TaskRank
    \/ TaskExtract
    \/ TaskFindings
    \/ TaskSynthesize
    \/ TaskCompress

TaskSpec == TaskInit /\ [][TaskNext]_vars

\* C12: a task dispatched in a re-research round performs no completion call
\* to generate queries, and when suggested_searches is not empty every query
\* it issues is one of the suggested searches; also when the stored answer
\* text or the weak answer's suggestion is empty.
C12_ReResearchUsesSuggestedSearches ==
    (tk # None /\ tk[1].round = "re_research" /\ tk[1].pc # "start")
    => LET t == tk[1]
           suggested == t.payload.suggested_searches
       IN  /\ ~t.query_generation
           /\ suggested # <<>> =>
                 /\ t.queries # <<>>
                 /\ \A i \in 1..Len(t.queries) : t.queries[i] = suggested[i]

----------------------------------------------------------------------------
\* The question ids of the tasks of the current dispatch round.
DispatchedIds == {TaskId(i) : i \in 1..Len(tasks)}

\* The last task of the round that carries question id q.
LastTaskFor(q) ==
    CHOOSE i \in 1..Len(tasks) :
        /\ TaskId(i) = q
        /\ \A j \in (i + 1)..Len(tasks) : TaskId(j) # q

\* C13: when a round is merged, every dispatched question_id maps to the whole
\* answer (and compressed text) its task of that round returned, every entry
\* of a question_id that was not dispatched is unchanged in both mappings, and
\* no other key appears.
C13_LastWriterWins ==
    [][(stage = "parallel_researcher" /\ stage' = "aggregate")
       => /\ DOMAIN question_answers' = DOMAIN question_answers \cup DispatchedIds
          /\ DOMAIN compressed_findings' =
                DOMAIN compressed_findings \cup DispatchedIds
          /\ \A q \in DispatchedIds :
                /\ question_answers'[q] =
                      updates[LastTaskFor(q)].question_answers[q]
                /\ compressed_findings'[q] =
                      updates[LastTaskFor(q)].compressed_findings[q]
          /\ \A q \in DOMAIN question_answers \ DispatchedIds :
                question_answers'[q] = question_answers[q]
          /\ \A q \in DOMAIN compressed_findings \ DispatchedIds :
                compressed_findings'[q] = compressed_findings[q]]_vars

\* A re-research round has been merged: one answer replaced, one untouched.
C13_Witness ==
    /\ stage = "aggregate"
    /\ ReResearchRounds = 1
    /\ \E q \in DOMAIN question_answers :
          question_answers[q].answer = "improve_research"
    /\ \E q \in DOMAIN question_answers :
          question_answers[q].answer = "research_question"

----------------------------------------------------------------------------
\* RankSpec: the candidate ranking step examined on its own.

NewRanking(hits) ==
    [pc |-> "collected", all_results |-> hits, ranked |-> <<>>, reranked |-> <<>>]

RankInit ==
    /\ RunIdle
    /\ tk = None
    /\ ct = None
    /\ cg = None
    /\ rt = None
    /\ pl = None
    /\ mg = None
    /\ sr = None
    /\ \/ \E n \in 0..MaxHits :
             \E f \in [1..n -> (NoUrl..MaxUrl) \X (0..MaxScore)] :
                rk = Some(NewRanking(ShortHitList(f)))
       \/ \E n \in (TOP_K + 1)..(TOP_K + ExtraHits) :
             \E f \in [1..n -> {1, 2}] :
                rk = Some(NewRanking(LongHitList(f)))

\* The ranking step runs on the collected hits.
Rank ==
    /\ rk # None
    /\ rk[1].pc = "collected"
    /\ rk' = Some([rk[1] EXCEPT !.pc = "ranked",
                                !.ranked = rank_results(rk[1].all_results)])
    /\ UNCHANGED <<run, tk, ct, cg, rt, pl, mg, sr>>

\* The ranking step runs again, on its own output.
Rerank ==
    /\ rk # None
    /\ rk[1].pc = "ranked"
    /\ rk' = Some([rk[1] EXCEPT !.pc = "reranked",
                                !.reranked = rank_results(rk[1].ranked)])
    /\ UNCHANGED <<run, tk, ct, cg, rt, pl, mg, sr>>

RankNext == Rank \/ Rerank

RankSpec == RankInit /\ [][RankNext]_vars

\* The hits of a list that carry url u.
HitsOf(hits, u) == {i \in 1..Len(hits) : hits[i].url = u}

\* The position at which url u first appears in a list.
FirstAppearance(hits, u) ==
    CHOOSE i \in HitsOf(hits, u) : \A j \in HitsOf(hits, u) : i <= j

\* The usable URLs of a hit list.
UrlsOf(hits) == {hits[i].url : i \in 1..Len(hits)} \ {NoUrl}

\* C14: the ranked list has at most one hit per URL, and the hit retained for a
\* URL is an input hit of that URL with the maximum score among the input hits
\* of that URL, the earliest of those with that score.
C14_BestHitPerUrl ==
    (rk # None /\ rk[1].pc # "collected")
    => LET in == rk[1].all_results
           out == rk[1].ranked
       IN  /\ \A i, j \in 1..Len(out) : out[i].url = out[j].url => i = j
           /\ \A i \in 1..Len(out) :
                 LET h == out[i]
                 IN  /\ h.url # NoUrl
                     /\ h.title \in HitsOf(in, h.url)
                     /\ in[h.title] = h
                     /\ \A k \in HitsOf(in, h.url) :
                           /\ in[k].score <= h.score
                           /\ in[k].score = h.score => h.title <= k

\* A URL was returned three times, the best score twice: the first of the two
\* best hits is the one ranked.
C14_Witness ==
    /\ rk # None
    /\ rk[1].pc = "ranked"
    /\ \E i, j, k \in 1..Len(rk[1].all_results) :
          LET in == rk[1].all_results
          IN  /\ i < j /\ j < k
              /\ in[i].url # NoUrl
              /\ in[i].url = in[j].url /\ in[j].url = in[k].url
              /\ in[i].score < in[j].score
              /\ in[j].score = in[k].score
              /\ \E n \in 1..Len(rk[1].ranked) : rk[1].ranked[n] = in[j]

\* C15: ranking the ranked list again returns it unchanged, in the same order.
C15_RankIdempotent ==
    (rk # None /\ rk[1].pc = "reranked") => rk[1].reranked = rk[1].ranked

\* A ranked list with two hits of equal score has been ranked again.
C15_Witness ==
    /\ rk # None
    /\ rk[1].pc = "reranked"
    /\ \E i, j \in 1..Len(rk[1].ranked) :
          i < j /\ rk[1].ranked[i].score = rk[1].ranked[j].score

\* C16: the ranked list is in descending score order, hits of equal score are
\* in the order in which their URLs first appeared in the input, the list has
\* at most TOP_K hits, and when the input has more than TOP_K distinct URLs it
\* has exactly TOP_K hits, none scoring below a URL that was left out.
C16_SortedTopK ==
    (rk # None /\ rk[1].pc # "collected")
    => LET in == rk[1].all_results
           out == rk[1].ranked
           kept == {out[i].url : i \in 1..Len(out)}
           best(u) == CHOOSE s \in {in[k].score : k \in HitsOf(in, u)} :
                          \A k \in HitsOf(in, u) : in[k].score <= s
       IN  /\ \A i, j \in 1..Len(out) :
                 i < j => /\ out[i].score >= out[j].score
                          /\ out[i].score = out[j].score
                                => FirstAppearance(in, out[i].url)
                                      < FirstAppearance(in, out[j].url)
           /\ Len(out) <= TOP_K
           /\ Cardinality(UrlsOf(in)) <= TOP_K => kept = UrlsOf(in)
           /\ Cardinality(UrlsOf(in)) > TOP_K =>
                 /\ Len(out) = TOP_K
                 /\ \A u \in UrlsOf(in) \ kept :
                       \A i \in 1..Len(out) : out[i].score >= best(u)

\* More than TOP_K URLs were found and a better hit arrived after a worse one:
\* the list was cut to TOP_K and reordered.
C16_Witness ==
    /\ rk # None
    /\ rk[1].pc = "ranked"
    /\ Len(rk[1].all_results) > TOP_K
    /\ Len(rk[1].ranked) = TOP_K
    /\ rk[1].all_results[1].score < rk[1].all_results[Len(rk[1].all_results)].score
    /\ rk[1].ranked[1] # rk[1].all_results[1]

----------------------------------------------------------------------------
\* Citation normalisation, ReportCompiler._format_citations, examined on its
\* own. A report is a sequence of tokens: plain text, a citation marker
\* "[src_x]", a heading line "## References" (the form the strip pattern
\* matches) or "### References" (a form it does not match), the heading line
\* "## <title>" that opens a section of the report, and, in formatted
\* text, a display marker "[N]", the literal "[?]" and reference entries
\* "[N] [title](url)". Identifiers are numbered in their lexical order.

MaxReportLen == 3     \* tokens in a generated report
MaxSourceId == 3      \* distinct src_ identifiers

SourceIds == 1..MaxSourceId

Token(kind, id, num) == [kind |-> kind, id |-> id, num |-> num]
TextToken == Token("text", 0, 0)
Marker(sid) == Token("marker", sid, 0)
ReferencesHeading == Token("references_heading", 0, 0)
ReferencesSubheading == Token("references_subheading", 0, 0)
SectionHeading == Token("section_heading", 0, 0)
DisplayNumber(num) == Token("number", 0, num)
QuestionMark == Token("question_mark", 0, 0)
ReferenceEntry(num, sid) == Token("entry", sid, num)

\* What the generation step can emit.
GeneratedTokens ==
    {TextToken, ReferencesHeading, ReferencesSubheading, SectionHeading}
        \cup {Marker(sid) : sid \in SourceIds}

GeneratedReports == SeqsUpTo(GeneratedTokens, MaxReportLen)

\* The catalogues: which identifiers have a SourceMetadata entry.
Catalogues == SUBSET SourceIds

Positions(report, kind) == {p \in 1..Len(report) : report[p].kind = kind}

\* set(re.findall(r'\[(src_[a-zA-Z0-9]+)\]', report))
used_ids(report) == {report[p].id : p \in Positions(report, "marker")}

\* sorted(ids): ascending.
RECURSIVE sorted_ids(_)
sorted_ids(ids) ==
    IF ids = {} THEN <<>>
    ELSE LET least == CHOOSE m \in ids : \A n \in ids : m <= n
         IN  <<least>> \o sorted_ids(ids \ {least})

\* Numbering in order of first appearance in the text.
id_to_num_by_first_appearance(report) ==
    [sid \in used_ids(report) |->
        LET first(x) == CHOOSE p \in Positions(report, "marker") :
                            /\ report[p].id = x
                            /\ \A q \in Positions(report, "marker") :
                                  report[q].id = x => p <= q
        IN  Cardinality({x \in used_ids(report) : first(x) <= first(sid)})]

\* {sid: idx for idx, sid in enumerate(sorted(used_ids), 1)}
id_to_num(report) ==
    LET sorted == sorted_ids(used_ids(report))
    IN  [sid \in used_ids(report) |->
            CHOOSE idx \in 1..Len(sorted) : sorted[idx] = sid]

\* The substitution callback: f"[{id_to_num.get(sid, '?')}]".
replace(token, nums) ==
    IF token.kind # "marker" THEN token
    ELSE IF token.id \in DOMAIN nums THEN DisplayNumber(nums[token.id])
         ELSE QuestionMark

\* re.sub(r'\n+##?\s*References?\s*\n.*', '', report, DOTALL | IGNORECASE):
\* everything from the first matching heading to the end of the text goes.
strip_references(report) ==
    LET matches == Positions(report, "references_heading")
    IN  IF matches = {} THEN report
        ELSE LET first == CHOOSE p \in matches : \A q \in matches : p <= q
             IN  SubSeq(report, 1, first - 1)

RECURSIVE reference_entries(_, _, _)
reference_entries(ordered, nums, sources) ==
    IF ordered = <<>> THEN <<>>
    ELSE LET sid == Head(ordered)
             rest == reference_entries(Tail(ordered), nums, sources)
         IN  IF sid \in sources
             THEN <<ReferenceEntry(nums[sid], sid)>> \o rest
             ELSE rest

\* The appended list: nothing when no identifier is cited, otherwise the
\* heading and one entry per cited identifier the catalogue has.
reference_list(nums, sources) ==
    IF DOMAIN nums = {} THEN <<>>
    ELSE <<ReferencesHeading>>
            \o reference_entries(sorted_ids(DOMAIN nums), nums, sources)

_format_citations(report, sources) ==
    LET nums == id_to_num(report)
        replaced == [p \in 1..Len(report) |-> replace(report[p], nums)]
    IN  strip_references(replaced) \o reference_list(nums, sources)

CiteInit ==
    /\ RunIdle
    /\ tk = None
    /\ rk = None
    /\ cg = None
    /\ rt = None
    /\ pl = None
    /\ mg = None
    /\ sr = None
    /\ \E report \in GeneratedReports, sources \in Catalogues :
          ct = Some([pc |-> "generated", report |-> report, sources |-> sources,
                     id_to_num |-> EmptyDict,
                     formatted |-> <<>>, reformatted |-> <<>>])

\* compile_report hands the joined sections to _format_citations.
FormatCitations ==
    /\ ct # None
    /\ ct[1].pc = "generated"
    /\ ct' = Some([ct[1] EXCEPT
                     !.pc = "formatted",
                     !.id_to_num = id_to_num(ct[1].report),
                     !.formatted = _format_citations(ct[1].report, ct[1].sources)])
    /\ UNCHANGED <<run, tk, rk, cg, rt, pl, mg, sr>>

\* _format_citations runs again, on its own output, with the same catalogue.
FormatCitationsAgain ==
    /\ ct # None
    /\ ct[1].pc = "formatted"
    /\ ct' = Some([ct[1] EXCEPT
                     !.pc = "reformatted",
                     !.reformatted =
                         _format_citations(ct[1].formatted, ct[1].sources)])
    /\ UNCHANGED <<run, tk, rk, cg, rt, pl, mg, sr>>

CiteNext == FormatCitations \/ FormatCitationsAgain

CiteSpec == CiteInit /\ [][CiteNext]_vars

\* The positions of the generated report that survive the strip.
BodyPositions(report) == 1..Len(strip_references(report))

\* C17: the identifiers found in the report are numbered 1..n in ascending
\* lexical order, whatever their order in the text, and every surviving
\* occurrence of an identifier is replaced by that identifier's number.
C17_NumberingBySortedIds ==
    (ct # None /\ ct[1].pc # "generated")
    => LET report == ct[1].report
           used == used_ids(report)
           nums == ct[1].id_to_num
       IN  /\ DOMAIN nums = used
           /\ \A sid \in used :
                 nums[sid] = Cardinality({x \in used : x <= sid})
           /\ {nums[sid] : sid \in used} = 1..Cardinality(used)
           /\ \A p \in BodyPositions(report) :
                 report[p].kind = "marker"
                    => ct[1].formatted[p] = DisplayNumber(nums[report[p].id])

\* The text cites the second, the first and the third identifier, in that
\* order, and has been formatted.
C17_Witness ==
    /\ ct # None
    /\ ct[1].pc = "formatted"
    /\ ct[1].report = <<Marker(2), Marker(1), Marker(3)>>
    /\ ct[1].formatted[1] = DisplayNumber(2)

\* C18: formatting the formatted report again, with the same catalogue,
\* returns it unchanged, reference list included.
C18_FormatIdempotent ==
    (ct # None /\ ct[1].pc = "reformatted")
    => ct[1].reformatted = ct[1].formatted

\* C19: a surviving marker whose identifier is not in the catalogue is
\* rendered as the literal [?].
C19_UnresolvedIsQuestionMark ==
    (ct # None /\ ct[1].pc # "generated")
    => \A p \in BodyPositions(ct[1].report) :
          (/\ ct[1].report[p].kind = "marker"
           /\ ct[1].report[p].id \notin ct[1].sources)
          => ct[1].formatted[p] = QuestionMark

\* C20: a formatted report that cites an identifier has exactly one reference
\* heading, everything behind it is the fresh list, and the list has one entry
\* per cited identifier of the catalogue, in ascending number order.
C20_OneReferenceList ==
    (ct # None /\ ct[1].pc # "generated" /\ used_ids(ct[1].report) # {})
    => LET out == ct[1].formatted
           nums == ct[1].id_to_num
           headings == Positions(out, "references_heading")
                          \cup Positions(out, "references_subheading")
           resolved == sorted_ids(used_ids(ct[1].report) \cap ct[1].sources)
       IN  /\ Cardinality(headings) = 1
           /\ \A h \in headings :
                 /\ Len(out) = h + Len(resolved)
                 /\ \A i \in 1..Len(resolved) :
                       out[h + i] = ReferenceEntry(nums[resolved[i]], resolved[i])

----------------------------------------------------------------------------
\* The source catalogue compiler_node hands to the report compiler, examined
\* on its own: the sources of all stored answers, one per URL.

MaxCatalogueAnswers == 2   \* answers in the result store
MaxCatalogueSources == 3   \* sources over all answers

\* The result store whose answers hold, in order, the sources listed in f:
\* f[i] = <<question_id, url>> of the i-th source. The store iterates in
\* ascending key order.
StoredAnswers(f) ==
    [q \in 1..MaxCatalogueAnswers |->
        LET owned == Ascending({i \in DOMAIN f : f[i][1] = q})
        IN  [question_id |-> q,
             sources |-> [j \in 1..Len(owned) |->
                            SourceMetadata(owned[j], f[owned[j]][2])]]]

\* The inner loop body without the seen_urls test.
gather_source_no_dedupe(acc, src) ==
    IF src.url # NoUrl
    THEN [all_sources |-> Append(acc.all_sources, src),
          seen_urls |-> acc.seen_urls \cup {src.url}]
    ELSE acc

\* The inner loop body: if url and url not in seen_urls.
gather_source(acc, src) ==
    IF src.url # NoUrl /\ src.url \notin acc.seen_urls
    THEN [all_sources |-> Append(acc.all_sources, src),
          seen_urls |-> acc.seen_urls \cup {src.url}]
    ELSE acc

RECURSIVE gather_answer(_, _)
gather_answer(acc, sources) ==
    IF sources = <<>> THEN acc
    ELSE gather_answer(gather_source(acc, Head(sources)), Tail(sources))

RECURSIVE gather_upto(_, _)
gather_upto(answers, n) ==
    IF n = 0 THEN [all_sources |-> <<>>, seen_urls |-> {}]
    ELSE gather_answer(gather_upto(answers, n - 1), answers[n].sources)

\* compiler_node: the loops over question_answers.items() and answer.sources.
all_sources(answers) == gather_upto(answers, Len(answers)).all_sources

CatalogueInit ==
    /\ RunIdle
    /\ tk = None
    /\ rk = None
    /\ ct = None
    /\ rt = None
    /\ pl = None
    /\ mg = None
    /\ sr = None
    /\ \E n \in 0..MaxCatalogueSources :
          \E f \in [1..n -> (1..MaxCatalogueAnswers) \X (NoUrl..MaxUrl)] :
             cg = Some([pc |-> "stored", question_answers |-> StoredAnswers(f),
                        all_sources |-> <<>>])

\* compiler_node gathers the sources of the stored answers.
GatherSources ==
    /\ cg # None
    /\ cg[1].pc = "stored"
    /\ cg' = Some([cg[1] EXCEPT !.pc = "gathered",
                                !.all_sources = all_sources(cg[1].question_answers)])
    /\ UNCHANGED <<run, tk, rk, ct, rt, pl, mg, sr>>

CatalogueNext == GatherSources

CatalogueSpec == CatalogueInit /\ [][CatalogueNext]_vars

\* The sources of a store in iteration order: answer by answer, each answer's
\* sources in list order.
RECURSIVE SourcesInOrder(_, _)
SourcesInOrder(answers, n) ==
    IF n = 0 THEN <<>>
    ELSE SourcesInOrder(answers, n - 1) \o answers[n].sources

\* C21: the catalogue holds each URL at most once, every source in it is the
\* first source with its URL in result-store iteration order, and every
\* non-empty URL of the store is in it.
C21_CatalogueFirstSeen ==
    (cg # None /\ cg[1].pc = "gathered")
    => LET in == SourcesInOrder(cg[1].question_answers,
                                Len(cg[1].question_answers))
           out == cg[1].all_sources
       IN  /\ \A i, j \in 1..Len(out) : out[i].url = out[j].url => i = j
           /\ \A i \in 1..Len(out) :
                 \E k \in 1..Len(in) :
                    /\ in[k] = out[i]
                    /\ \A m \in 1..(k - 1) : in[m].url # out[i].url
           /\ {in[k].url : k \in 1..Len(in)} \ {NoUrl}
                 = {out[i].url : i \in 1..Len(out)}

\* A URL found for the first question and again for the second: the first
\* question's source is the one in the catalogue.
C21_Witness ==
    /\ cg # None
    /\ cg[1].pc = "gathered"
    /\ \E s \in 1..Len(cg[1].question_answers[1].sources),
          t \in 1..Len(cg[1].question_answers[2].sources) :
          LET first == cg[1].question_answers[1].sources[s]
              second == cg[1].question_answers[2].sources[t]
          IN  /\ first.url # NoUrl
              /\ first.url = second.url
              /\ \E i \in 1..Len(cg[1].all_sources) : cg[1].all_sources[i] = first

----------------------------------------------------------------------------
\* Assessments produced so far: every reflection stage that has been left.
AssessmentsMade ==
    Cardinality({i \in 1..(Len(trace) - 1) : trace[i] = "reflection"})

\* The question ids the latest assessment lists as weak.
WeakIds ==
    {_get_weak_answers(agent_analysis)[i].question_id :
        i \in 1..Len(_get_weak_answers(agent_analysis))}

PlanLen == IF research_plan = None THEN 0 ELSE Len(research_plan[1].sub_questions)

\* C22: with a plan of 3 sub-questions and a first assessment of strong, one
\* research round has run and answered the 3 questions, the stage after the
\* assessment is the compiler, and current_iteration is 0 from then on to the
\* end of the run.
C22_StrongScenario ==
    (/\ PlanLen = 3
     /\ AssessmentsMade = 1
     /\ agent_analysis[1].overall_assessment = "strong")
    => /\ stage \in {"compiler", "done"}
       /\ trace = <<"planner", "parallel_researcher", "aggregate", "reflection",
                    "compiler">>
       /\ ResearchRounds = 1
       /\ DOMAIN question_answers = 1..3
       /\ \A q \in 1..3 : question_answers[q].answer = "research_question"
       /\ next_step = "compile"
       /\ current_iteration = 0
       /\ stage = "done" => final_report # None

\* The strong scenario has run to its end.
C22_Witness ==
    /\ PlanLen = 3
    /\ AssessmentsMade = 1
    /\ agent_analysis[1].overall_assessment = "strong"
    /\ stage = "done"
    /\ final_report # None

\* The second round of the scenario of C23: max_iterations is 1, the plan has
\* 3 sub-questions and the first assessment flags only question 2.
SecondRoundForQ2 ==
    /\ max_iterations = 1
    /\ PlanLen = 3
    /\ AssessmentsMade = 1
    /\ stage \in {"parallel_researcher", "aggregate", "reflection"}
    /\ Len(_get_weak_answers(agent_analysis)) = 1
    /\ WeakIds = {2}

\* The run of C23 after the second assessment, which flags question 2 again.
SecondAssessmentFlagsQ2 ==
    /\ max_iterations = 1
    /\ PlanLen = 3
    /\ AssessmentsMade = 2
    /\ agent_analysis[1].overall_assessment = "needs_improvement"
    /\ 2 \in WeakIds
    /\ question_answers[2].answer = "improve_research"
    /\ \A q \in {1, 3} : question_answers[q].answer = "research_question"

\* C23: with max_iterations = 1 and a plan of 3 sub-questions, a first
\* assessment flagging only question 2 dispatches exactly one task, for
\* question 2; when the second assessment flags question 2 again the run goes
\* to the compiler after the second round, no third round is dispatched, and
\* the assessment held in the state keeps listing question 2 to the end.
C23_BudgetScenario ==
    /\ [](SecondRoundForQ2 => (Len(tasks) = 1 /\ TaskId(1) = 2))
    /\ [](SecondAssessmentFlagsQ2
            => /\ stage \in {"compiler", "done"}
               /\ trace = <<"planner", "parallel_researcher", "aggregate",
                            "reflection", "parallel_researcher", "aggregate",
                            "reflection", "compiler">>
               /\ ResearchRounds = 2
               /\ stage = "done" => final_report # None)
    /\ [][SecondAssessmentFlagsQ2
            => (SecondAssessmentFlagsQ2' /\ agent_analysis' = agent_analysis)]_vars

\* The budget scenario has run to its end with question 2 still listed.
C23_Witness ==
    /\ SecondAssessmentFlagsQ2
    /\ stage = "done"
    /\ final_report # None
    /\ current_iteration = 1

----------------------------------------------------------------------------
\* The task's search loop is over and no call returned a hit.
SearchedInVain ==
    /\ tk # None
    /\ tk[1].hits = "none"
    /\ tk[1].answer # None

\* C24: an initial-round task whose searches all return no result stores the
\* explicit insufficient answer (completeness insufficient, confidence low, no
\* findings, no sources), makes no extraction, finding or synthesis call, and
\* returns its update without raising, the compressed text saying that no
\* source was found.
C24_NoResultsIsInsufficient ==
    (SearchedInVain /\ tk[1].round = "initial")
    => LET t == tk[1]
           a == t.answer[1]
       IN  /\ a.question_id = t.payload.sub_question[1].question_id
           /\ a.completeness = "insufficient"
           /\ a.confidence = "low"
           /\ a.key_findings = "none"
           /\ a.sources = <<>>
           /\ t.extract_calls = 0
           /\ t.finding_calls = 0
           /\ t.synthesis_calls = 0
           /\ t.pc \in {"compress", "done"}
           /\ t.raised_by = ""
           /\ t.pc = "done" => t.compressed = Some("No sources found.")

\* Four searches were made, none returned a hit, and the task has
\* returned.
C24_Witness ==
    /\ SearchedInVain
    /\ tk[1].round = "initial"
    /\ tk[1].searches = QUERY_LIMIT
    /\ tk[1].pc = "done"

\* C25: a re-research task in the improve_research branch that obtains nothing
\* new (no search result, or no finding) writes an answer that keeps both the
\* previous answer text and the previous sources.
C25_FallBackToPrevious ==
    (/\ tk # None
     /\ tk[1].round = "re_research"
     /\ tk[1].branch = "improve_research"
     /\ tk[1].answer # None
     /\ tk[1].hits = "none" \/ tk[1].findings = "none")
    => /\ tk[1].answer[1].answer = tk[1].payload.previous_answer
       /\ tk[1].answer[1].sources = tk[1].payload.previous_sources

\* C30: when the provider raises a connection, timeout or value error,
\* search_tavily returns an empty list and extract_full_content an empty
\* mapping, and the exception does not leave the wrapper: the task goes on.
C30_WrappersFailClosed ==
    tk # None
    => LET t == tk[1]
       IN  /\ t.last_search.provider \in CaughtProviderErrors
                => /\ t.last_search.returned = "empty"
                   /\ t.raised_by # "search"
           /\ t.last_extract.provider \in CaughtProviderErrors
                => /\ t.last_extract.returned = "empty"
                   /\ t.raised_by # "extract"
           /\ t.pc = "raised" => t.raised_by # ""

\* A task whose last search and whose extraction both failed closed has
\* returned.
C30_Witness ==
    /\ tk # None
    /\ tk[1].last_search.provider \in CaughtProviderErrors
    /\ tk[1].last_extract.provider \in CaughtProviderErrors
    /\ tk[1].pc = "done"

----------------------------------------------------------------------------
\* The last line the entry point printed.
LastPrinted == proc.stdout[Len(proc.stdout)]

\* C26: when the entry point has ended after an exception left the run, it
\* printed an error line, its exit status is not 0 and it printed no report;
\* when it has ended after the run returned, it printed the compiled report
\* held in final_report.
C26_EntryPointOutput ==
    proc.exit_status # None
    => /\ stage = "failed"
            => /\ LastPrinted = "Error"
               /\ proc.exit_status # Some(0)
               /\ \A i \in 1..Len(proc.stdout) :
                     proc.stdout[i] \in {"Researching", "Error"}
       /\ stage = "done"
            => /\ final_report # None
               /\ LastPrinted = final_report[1]

\* C27: in a run where every step that can be taken is eventually taken and
\* no node or task invocation raises, the run reaches END, whatever the
\* assessments are.
C27_RunTerminates == ([](stage # "failed")) => <>(stage = "done")

\* A run that went round the research / assess loop has reached END.
C27_Witness ==
    /\ stage = "done"
    /\ ReResearchRounds = 1
    /\ agent_analysis[1].overall_assessment = "needs_improvement"
    /\ proc.exit_status = Some(0)

----------------------------------------------------------------------------
\* C29: the assessment held in the state is always the one the latest
\* reflection stage produced, whole (none before the first); no step of another
\* stage changes it; and the step out of a reflection stage goes where the
\* router sends it given that latest assessment alone.
C29_AssessmentReplaced ==
    /\ [](agent_analysis = assessment)
    /\ [][stage # "reflection" => agent_analysis' = agent_analysis]_vars
    /\ [][(stage = "reflection" /\ stage' # "reflection")
            => LET sends == route_after_reflection(current_iteration', assessment',
                                                    next_step', research_plan,
                                                    question_answers)
               IN  /\ stage' = StageOf(SendTarget(sends))
                   /\ tasks' = IF SendTarget(sends) = "parallel_researcher"
                               THEN [i \in 1..Len(sends) |-> sends[i].arg]
                               ELSE <<>>]_vars

\* A second assessment with no weak answer and no suggested search has
\* replaced a first one that had both.
C29_Witness ==
    /\ AssessmentsMade = 2
    /\ stage = "done"
    /\ agent_analysis[1].weak_answers = <<>>
    /\ agent_analysis[1].suggested_searches = <<>>
    /\ agent_analysis[1].overall_assessment = "needs_improvement"

----------------------------------------------------------------------------
\* RouteSpec: one call of route_after_reflection, on stores and assessments
\* with distinguishable sources, suggestions and searches.

RouteSuggestions == {"fix", "expand"}

RouteSearchLists == {<<>>, <<"search 1">>, <<"search 1", "search 2">>}

\* The store after the initial round of a plan of n sub-questions: every
\* question has its own source.
RouteStore(n) ==
    [q \in 1..n |-> QuestionAnswer(q, "stored answer", <<<<"source", q>>>>)]

RouteInit ==
    /\ RunIdle
    /\ tk = None
    /\ rk = None
    /\ ct = None
    /\ cg = None
    /\ pl = None
    /\ mg = None
    /\ sr = None
    /\ \E n \in 1..MaxPlanLen, len \in 0..MaxWeakLen,
          iteration \in 1..MAX_ITERATIONS,
          step \in {"re_research", "compile"},
          searches \in RouteSearchLists :
          \E weak \in [1..len -> QuestionIds \X RouteSuggestions] :
             rt = Some([pc |-> "reflected",
                        plan |-> Some(ResearchPlan(n)),
                        answers |-> RouteStore(n),
                        iteration |-> iteration,
                        step |-> step,
                        analysis |-> Some(
                           [overall_assessment |-> "needs_improvement",
                            weak_answers |->
                               [i \in 1..len |-> WeakAnswer(weak[i][1], weak[i][2])],
                            suggested_searches |-> searches]),
                        sends |-> <<>>])

\* The conditional edge after reflection is evaluated.
Route ==
    /\ rt # None
    /\ rt[1].pc = "reflected"
    /\ rt' = Some([rt[1] EXCEPT
                     !.pc = "routed",
                     !.sends = route_after_reflection(rt[1].iteration, rt[1].analysis,
                                                      rt[1].step, rt[1].plan,
                                                      rt[1].answers)])
    /\ UNCHANGED <<run, tk, rk, ct, cg, pl, mg, sr>>

RouteNext == Route

RouteSpec == RouteInit /\ [][RouteNext]_vars

\* The weak answers of the routed assessment that name a plan question.
RoutedWeakAnswers ==
    LET n == Len(rt[1].plan[1].sub_questions)
        InPlan(wa) == wa.question_id \in 1..n
    IN  SelectSeq(rt[1].analysis[1].weak_answers, InPlan)

\* C28: every task the router dispatches for a re-research round carries the
\* plan's sub-question for its weak answer's question_id, the answer text and
\* the sources stored for that question_id, that weak answer's own suggestion
\* and the whole suggested_searches list of the assessment.
C28_ReResearchPayload ==
    (/\ rt # None
     /\ rt[1].pc = "routed"
     /\ SendTarget(rt[1].sends) = "parallel_researcher")
    => LET r == rt[1]
           sqs == r.plan[1].sub_questions
       IN  /\ Len(r.sends) = Len(RoutedWeakAnswers)
           /\ \A i \in 1..Len(r.sends) :
                 LET wa == RoutedWeakAnswers[i]
                     q == wa.question_id
                     p == r.sends[i].arg
                 IN  /\ \E k \in 1..Len(sqs) :
                           sqs[k].question_id = q /\ p.sub_question = Some(sqs[k])
                     /\ p.previous_answer =
                           IF q \in DOMAIN r.answers THEN r.answers[q].answer ELSE ""
                     /\ p.previous_sources =
                           IF q \in DOMAIN r.answers THEN r.answers[q].sources
                           ELSE <<>>
                     /\ p.improvement_suggestion = wa.suggestion
                     /\ p.suggested_searches = r.analysis[1].suggested_searches

\* Two weak answers with different suggestions were dispatched together with
\* two suggested searches.
C28_Witness ==
    /\ rt # None
    /\ rt[1].pc = "routed"
    /\ Len(rt[1].sends) = 2
    /\ rt[1].sends[1].arg.improvement_suggestion
          # rt[1].sends[2].arg.improvement_suggestion
    /\ rt[1].sends[1].arg.previous_sources # rt[1].sends[2].arg.previous_sources
    /\ Len(rt[1].sends[1].arg.suggested_searches) = 2

----------------------------------------------------------------------------
\* PlanSpec: one call of Planner.plan, from the completion's plan to the plan
\* the planner returns.

\* Longest plan the completion generates.
MaxGenerated == 4
\* Largest configured max_questions (configurable.max_questions).
MaxQuestionsCap == 3

\* SubQuestion.importance is a plain string: the three documented levels, or
\* anything else the completion writes.
Importances == {"critical", "important", "supporting", "other"}

\* A generated sub-question: its id is its position in the generated plan.
GeneratedQuestion(q, importance) == [question_id |-> q, importance |-> importance]

IsCritical(q) == q.importance = "critical"
IsImportant(q) == q.importance = "important"
IsSupporting(q) == q.importance = "supporting"

Planner_plan_cuts_in_plan_order(sub_questions, max_questions) ==
    IF Len(sub_questions) > max_questions
    THEN Take(sub_questions, max_questions)
    ELSE sub_questions

\* Planner.plan after the completion returned: the sub-questions of the plan.
Planner_plan(sub_questions, max_questions) ==
    IF Len(sub_questions) > max_questions
    THEN LET critical == SelectSeq(sub_questions, IsCritical)
             important == SelectSeq(sub_questions, IsImportant)
             supporting == SelectSeq(sub_questions, IsSupporting)
         IN  Take(critical \o important \o supporting, max_questions)
    ELSE sub_questions

PlanInit ==
    /\ RunIdle
    /\ tk = None
    /\ rk = None
    /\ ct = None
    /\ cg = None
    /\ rt = None
    /\ mg = None
    /\ sr = None
    /\ \E n \in 0..MaxGenerated, max_questions \in 0..MaxQuestionsCap :
          \E f \in [1..n -> Importances] :
             pl = Some([generated |-> [i \in 1..n |-> GeneratedQuestion(i, f[i])],
                        max_questions |-> max_questions,
                        sub_questions |-> None])

\* The cap is applied to the generated plan.
PlanQuestions ==
    /\ pl # None
    /\ pl[1].sub_questions = None
    /\ pl' = Some([pl[1] EXCEPT !.sub_questions =
                      Some(Planner_plan(pl[1].generated, pl[1].max_questions))])
    /\ UNCHANGED <<run, tk, rk, ct, cg, rt, mg, sr>>

PlanNext == PlanQuestions

PlanSpec == PlanInit /\ [][PlanNext]_vars

\* critical < important < supporting; 0 for any other importance.
ImportanceLevel(q) ==
    CASE q.importance = "critical" -> 1
      [] q.importance = "important" -> 2
      [] q.importance = "supporting" -> 3
      [] OTHER -> 0

\* C31: the returned plan has at most max_questions sub-questions; a generated
\* plan within the cap is returned as generated; when the cap applies, every
\* kept question is a generated one of a documented importance, the kept
\* questions are ordered critical, important, supporting with the generated
\* order inside each level, and every dropped question of a documented
\* importance is of no higher importance than any kept one and, at equal
\* importance, later in the generated plan.
C31_PlanCap ==
    (pl # None /\ pl[1].sub_questions # None) =>
        LET generated == pl[1].generated
            kept == pl[1].sub_questions[1]
            cap == pl[1].max_questions
            keptIds == {kept[j].question_id : j \in 1..Len(kept)}
        IN  /\ Len(kept) <= cap
            /\ Len(generated) <= cap => kept = generated
            /\ Len(generated) > cap =>
                  /\ \A j \in 1..Len(kept) :
                        /\ kept[j].question_id \in 1..Len(generated)
                        /\ kept[j] = generated[kept[j].question_id]
                        /\ ImportanceLevel(kept[j]) # 0
                  /\ \A i, j \in 1..Len(kept) :
                        i < j =>
                           \/ ImportanceLevel(kept[i]) < ImportanceLevel(kept[j])
                           \/ /\ ImportanceLevel(kept[i]) = ImportanceLevel(kept[j])
                              /\ kept[i].question_id < kept[j].question_id
                  /\ \A d \in 1..Len(generated), j \in 1..Len(kept) :
                        (d \notin keptIds /\ ImportanceLevel(generated[d]) # 0) =>
                           \/ ImportanceLevel(kept[j]) < ImportanceLevel(generated[d])
                           \/ /\ ImportanceLevel(kept[j]) = ImportanceLevel(generated[d])
                              /\ kept[j].question_id < d

\* The cap applied to a plan that opens with a supporting question, and the
\* returned plan opens with a critical question generated later while a
\* supporting question was dropped.
C31_Witness ==
    /\ pl # None
    /\ pl[1].sub_questions # None
    /\ Len(pl[1].generated) > pl[1].max_questions
    /\ pl[1].max_questions >= 2
    /\ pl[1].generated[1].importance = "supporting"
    /\ pl[1].sub_questions[1][1].importance = "critical"
    /\ pl[1].sub_questions[1][1].question_id > 1
    /\ Len(pl[1].sub_questions[1]) = pl[1].max_questions
    /\ 1 \notin {pl[1].sub_questions[1][j].question_id :
                    j \in 1..Len(pl[1].sub_questions[1])}

----------------------------------------------------------------------------
\* C32: the research plan is written once, by the planner, and no later step
\* (research task, barrier, aggregate, reflection with its routing, compiler,
\* entry point) changes it: its sub-question ids and their order stay as the
\* planner produced them.
C32_PlanWrittenOnce ==
    [][/\ research_plan' # research_plan =>
             (stage = "planner" /\ research_plan = None /\ research_plan' # None)
       /\ stage # "planner" => research_plan' = research_plan]_vars

\* A run that went through a re-research round and the compiler and returned,
\* with the two-question plan the planner produced.
C32_Witness ==
    /\ stage = "done"
    /\ proc.exit_status = Some(0)
    /\ final_report # None
    /\ current_iteration >= 1
    /\ research_plan = Some(ResearchPlan(2))

----------------------------------------------------------------------------
\* SourceSpec: the sources of one question's answer, from the initial round
\* (research_question) through a re-research round (improve_research).

\* Longest hit list the searches of one task collect.
MaxSourceHits == 2
\* Number of distinct URLs the hits carry.
MaxSourceUrl == 2

\* Scores of the hits of a task.
SourceScores == {1, 2}

\* Researcher.research_question, the sources of the answer it returns.
\* has_findings: extract_findings returned at least one finding.
research_question_sources(all_results, has_findings) ==
    IF all_results = <<>> THEN <<>>
    ELSE LET all_search_results == rank_results(all_results)
             found == extract_findings_sources(all_search_results, "initial")
         IN  IF all_search_results = <<>> \/ ~has_findings
             THEN <<>>
             ELSE found

\* Researcher.improve_research, the sources of the answer it returns.
improve_research_sources(all_results, has_findings, previous_sources) ==
    IF all_results = <<>> THEN <<>>
    ELSE LET top == rank_results(all_results)
             sources == extract_findings_sources(top, "improve")
         IN  IF top = <<>> \/ ~has_findings
             THEN previous_sources
             ELSE _merge_sources(sources, previous_sources)

SourceInit ==
    /\ RunIdle
    /\ tk = None
    /\ rk = None
    /\ ct = None
    /\ cg = None
    /\ rt = None
    /\ pl = None
    /\ mg = None
    /\ \E n \in 0..MaxSourceHits :
          \E f \in [1..n -> (NoUrl..MaxSourceUrl) \X SourceScores] :
             sr = Some([pc |-> "initial",
                        all_results |-> ShortHitList(f),
                        has_findings |-> FALSE,
                        previous_sources |-> <<>>,
                        new_sources |-> <<>>,
                        sources |-> <<>>])

\* The initial task returns its answer, which the barrier stores.
SourceInitial ==
    /\ sr # None
    /\ sr[1].pc = "initial"
    /\ \E has_findings \in BOOLEAN :
          sr' = Some([sr[1] EXCEPT
                  !.pc = "stored",
                  !.has_findings = has_findings,
                  !.sources = research_question_sources(sr[1].all_results,
                                                        has_findings)])
    /\ UNCHANGED <<run, tk, rk, ct, cg, rt, pl, mg>>

\* The re-research task for the question, given the stored answer's sources,
\* returns its answer.
SourceImprove ==
    /\ sr # None
    /\ sr[1].pc = "stored"
    /\ \E n \in 0..MaxSourceHits, has_findings \in BOOLEAN :
          \E f \in [1..n -> (NoUrl..MaxSourceUrl) \X SourceScores] :
             LET all_results == ShortHitList(f)
             IN  sr' = Some([pc |-> "improved",
                             all_results |-> all_results,
                             has_findings |-> has_findings,
                             previous_sources |-> sr[1].sources,
                             new_sources |->
                                IF all_results = <<>> THEN <<>>
                                ELSE extract_findings_sources(
                                        rank_results(all_results), "improve"),
                             sources |->
                                improve_research_sources(all_results, has_findings,
                                                         sr[1].sources)])
    /\ UNCHANGED <<run, tk, rk, ct, cg, rt, pl, mg>>

SourceNext == SourceInitial \/ SourceImprove

SourceSpec == SourceInit /\ [][SourceNext]_vars

DistinctUrls(sources) ==
    \A i, j \in 1..Len(sources) : sources[i].url = sources[j].url => i = j

UrlsOfSources(sources) == {sources[i].url : i \in 1..Len(sources)}

\* The previous sources whose url no new source has, in their order.
RECURSIVE PreviousNotInNew(_, _)
PreviousNotInNew(prev, new) ==
    IF prev = <<>> THEN <<>>
    ELSE IF Head(prev).url \in UrlsOfSources(new)
    THEN PreviousNotInNew(Tail(prev), new)
    ELSE <<Head(prev)>> \o PreviousNotInNew(Tail(prev), new)

\* C33: in the answer a task returns for the result store no two sources share
\* a url and none has an empty url; the initial answer has one source per
\* ranked hit, and a re-research answer that found new findings has the new
\* sources first, then the previous sources whose url is not among the new.
C33_SourceUrlsDistinct ==
    (sr # None /\ sr[1].pc # "initial") =>
        LET s == sr[1]
        IN  /\ DistinctUrls(s.sources)
            /\ NoUrl \notin UrlsOfSources(s.sources)
            /\ (s.pc = "stored" /\ s.sources # <<>>) =>
                  /\ Len(s.sources) = Len(rank_results(s.all_results))
                  /\ \A i \in 1..Len(s.sources) :
                        s.sources[i].url = rank_results(s.all_results)[i].url
            /\ (s.pc = "improved" /\ s.has_findings /\ s.new_sources # <<>>) =>
                  s.sources = s.new_sources \o
                                 PreviousNotInNew(s.previous_sources, s.new_sources)

\* A re-research answer merged two previous sources with a new source that has
\* the url of one of them: the new source comes first and only the other
\* previous source is kept.
C33_Witness ==
    /\ sr # None
    /\ sr[1].pc = "improved"
    /\ sr[1].has_findings
    /\ Len(sr[1].previous_sources) = 2
    /\ Len(sr[1].new_sources) = 1
    /\ sr[1].new_sources[1].url \in UrlsOfSources(sr[1].previous_sources)
    /\ Len(sr[1].sources) = 2
    /\ sr[1].sources[1] = sr[1].new_sources[1]
    /\ sr[1].sources[2] \in {sr[1].previous_sources[1], sr[1].previous_sources[2]}

----------------------------------------------------------------------------
\* The urls a sequence of urls holds.
UrlSet(urls) == {urls[i] : i \in 1..Len(urls)}

\* C34: a research task, initial or re-research, makes at most 4 search calls
\* and at most one content-extraction call; the extraction call receives at
\* most 10 urls, each the url of one of the task's ranked hits; it is made
\* when every search of the task has been made and before any finding
\* extraction or synthesis call, and no search follows it.
C34_CallBudget ==
    /\ [](tk # None =>
            LET t == tk[1]
            IN  /\ t.searches <= 4
                /\ t.extract_calls <= 1
                /\ Len(t.extract_urls) <= 10
                /\ UrlSet(t.extract_urls) \subseteq
                      UrlSet(top_urls(rank_results(t.all_results)))
                /\ t.extract_calls = 0 =>
                      (t.extract_urls = <<>> /\ t.finding_calls = 0
                                             /\ t.synthesis_calls = 0))
    /\ [][(tk # None /\ tk' # None /\ tk[1].extract_calls >= 1) =>
             (tk'[1].searches = tk[1].searches
                 /\ tk'[1].extract_calls = tk[1].extract_calls)]_vars
    /\ [][(tk # None /\ tk' # None /\ tk'[1].extract_calls > tk[1].extract_calls) =>
             (/\ tk[1].searches = Len(tk[1].queries)
              /\ tk[1].finding_calls = 0
              /\ tk[1].synthesis_calls = 0)]_vars

\* A re-research task made four searches that returned more than ten distinct
\* urls, then one extraction call with ten of them, then its finding
\* extraction and synthesis calls, and returned.
C34_Witness ==
    /\ tk # None
    /\ tk[1].round = "re_research"
    /\ tk[1].branch = "improve_research"
    /\ tk[1].searches = 4
    /\ Cardinality({tk[1].all_results[i].url : i \in 1..Len(tk[1].all_results)}) > 10
    /\ tk[1].extract_calls = 1
    /\ Len(tk[1].extract_urls) = 10
    /\ tk[1].finding_calls = 1
    /\ tk[1].synthesis_calls = 1
    /\ tk[1].pc = "done"

----------------------------------------------------------------------------
\* MergeSpec: the updates of one round's tasks going through the reducers of
\* question_answers and compressed_findings, in any order.

\* Most tasks in the round.
MaxMergeTasks == 3

\* The update of the task for question q: what researcher_node returns; q = 0
\* stands for an update that carries nothing for the two keyed channels.
TaskUpdate(i, q) ==
    IF q = 0
    THEN [question_answers |-> EmptyDict, compressed_findings |-> EmptyDict]
    ELSE [question_answers |->
             [k \in {q} |-> QuestionAnswer(q, "improve_research",
                                           <<SourceMetadata(<<"task", i>>, i)>>)],
          compressed_findings |-> [k \in {q} |-> "compress_research"]]

\* The result store before the round: empty, or an answer for every question.
StoresBeforeRound ==
    {[question_answers |-> EmptyDict, compressed_findings |-> EmptyDict],
     [question_answers |->
         [q \in QuestionIds |-> QuestionAnswer(q, "research_question", <<>>)],
      compressed_findings |-> [q \in QuestionIds |-> "stored research"]]}

MergeInit ==
    /\ RunIdle
    /\ tk = None
    /\ rk = None
    /\ ct = None
    /\ cg = None
    /\ rt = None
    /\ pl = None
    /\ sr = None
    /\ \E n \in 0..MaxMergeTasks, before \in StoresBeforeRound :
          \E f \in [1..n -> {0} \cup QuestionIds] :
             mg = Some([before |-> before,
                        updates |-> [i \in 1..n |-> TaskUpdate(i, f[i])],
                        pending |-> 1..n,
                        order |-> <<>>,
                        question_answers |-> before.question_answers,
                        compressed_findings |-> before.compressed_findings])

\* One task's update is applied through the two reducers.
MergeUpdate ==
    /\ mg # None
    /\ \E i \in mg[1].pending :
          mg' = Some([mg[1] EXCEPT
                  !.pending = mg[1].pending \ {i},
                  !.order = Append(mg[1].order, i),
                  !.question_answers =
                     merge_question_answers(mg[1].question_answers,
                                            mg[1].updates[i].question_answers),
                  !.compressed_findings =
                     merge_compressed_findings(mg[1].compressed_findings,
                                               mg[1].updates[i].compressed_findings)])
    /\ UNCHANGED <<run, tk, rk, ct, cg, rt, pl, sr>>

MergeNext == MergeUpdate

MergeSpec == MergeInit /\ [][MergeNext]_vars

\* The tasks of the round carry pairwise distinct question ids.
DistinctUpdateKeys(ups) ==
    \A i, j \in 1..Len(ups) :
        (i # j) => (DOMAIN ups[i].question_answers)
                      \cap (DOMAIN ups[j].question_answers) = {}

\* C35: when the tasks of a round carry pairwise distinct question ids, the
\* result store after all updates were merged is the one obtained by merging
\* them in task order, whatever order they were merged in; and merging an
\* update that carries nothing leaves the store as it was.
C35_MergeOrderIrrelevant ==
    /\ []((mg # None /\ mg[1].pending = {} /\ DistinctUpdateKeys(mg[1].updates)) =>
            LET m == mg[1]
                in_task_order == Ascending(1..Len(m.updates))
            IN  /\ m.question_answers =
                      MergeAnswers(m.before.question_answers, m.updates, in_task_order)
                /\ m.compressed_findings =
                      MergeCompressed(m.before.compressed_findings, m.updates,
                                      in_task_order))
    /\ [][(mg # None /\ mg' # None /\ Len(mg'[1].order) > Len(mg[1].order)
             /\ mg[1].updates[mg'[1].order[Len(mg'[1].order)]].question_answers
                   = EmptyDict) =>
             (/\ mg'[1].question_answers = mg[1].question_answers
              /\ mg'[1].compressed_findings = mg[1].compressed_findings)]_vars

\* Three updates for three different questions were merged last task first
\* into a store that held an answer for each, and replaced them all.
C35_Witness ==
    /\ mg # None
    /\ mg[1].pending = {}
    /\ mg[1].order = <<3, 2, 1>>
    /\ DistinctUpdateKeys(mg[1].updates)
    /\ \A i \in 1..3 : mg[1].updates[i].question_answers # EmptyDict
    /\ mg[1].before.question_answers # EmptyDict
    /\ \A q \in DOMAIN mg[1].question_answers :
          mg[1].question_answers[q].answer = "improve_research"

----------------------------------------------------------------------------
\* C36: in every state of a run current_iteration is at least 0 and at most
\* the configured max_iterations, and no step of the run lowers it.
C36_IterationRange ==
    /\ [](current_iteration \in 0..max_iterations)
    /\ [][current_iteration' >= current_iteration]_vars

\* A run that counted up to its configured budget of two and returned.
C36_Witness ==
    /\ stage = "done"
    /\ max_iterations = 2
    /\ current_iteration = 2
    /\ final_report # None

----------------------------------------------------------------------------
\* C37: every task of a re-research round targets a question of the plan; a
\* reflection step whose assessment asks for re-research but names no plan
\* question goes to the compiler; the keys of the result store (answers and
\* compressed findings) are always question ids of the plan, and no step
\* removes a key.
C37_TasksTargetPlanQuestions ==
    /\ [](/\ \A i \in 1..Len(tasks) : TaskId(i) \in PlanIds
          /\ DOMAIN question_answers \subseteq PlanIds
          /\ DOMAIN compressed_findings \subseteq PlanIds)
    /\ [][(/\ stage = "reflection"
           /\ stage' # "reflection"
           /\ KnownWeakAnswers' = <<>>) => stage' = "compiler"]_vars
    /\ [][/\ DOMAIN question_answers \subseteq DOMAIN question_answers'
          /\ DOMAIN compressed_findings \subseteq DOMAIN compressed_findings']_vars

\* A re-research round for question 1 only, entered on an assessment that also
\* named a question the one-question plan does not have, was merged.
C37_Witness ==
    /\ stage = "aggregate"
    /\ ReResearchRounds = 1
    /\ PlanIds = {1}
    /\ Len(_get_weak_answers(agent_analysis)) = 2
    /\ \E i \in 1..2 : _get_weak_answers(agent_analysis)[i].question_id \notin PlanIds
    /\ Len(tasks) = 1
    /\ DOMAIN question_answers = {1}
    /\ question_answers[1].answer = "improve_research"

----------------------------------------------------------------------------
\* The number of tasks of the current dispatch round that research question q.
TasksFor(q) == Cardinality({i \in 1..Len(tasks) : TaskId(i) = q})

\* C38: the initial round researches every sub-question exactly once; a later
\* round researches a sub-question at most once, and only when the preceding
\* assessment listed it in weak_answers; and the stored answer of a
\* sub-question changes only in a round that researches it.
C38_ResearchedOncePerFlaggingRound ==
    /\ [](stage = "parallel_researcher" =>
            \A q \in PlanIds :
                IF ReResearchRounds = 0
                THEN TasksFor(q) = 1
                ELSE /\ TasksFor(q) <= 1
                     /\ TasksFor(q) = 1 => q \in WeakIds)
    /\ [][\A q \in DOMAIN question_answers :
             question_answers'[q] # question_answers[q] =>
                (/\ stage = "parallel_researcher"
                 /\ ReResearchRounds >= 1
                 /\ q \in WeakIds)]_vars

----------------------------------------------------------------------------
\* The positions of a report that belong to a reference list: a reference
\* heading of either level and what follows it up to the next section heading.
RECURSIVE InReferenceList(_, _)
InReferenceList(report, p) ==
    IF p = 0 THEN FALSE
    ELSE IF report[p].kind \in {"references_heading", "references_subheading"}
    THEN TRUE
    ELSE IF report[p].kind = "section_heading" THEN FALSE
    ELSE InReferenceList(report, p - 1)

\* C39: every token of the generated report that is not part of a reference
\* list is in the formatted report, at its place, unchanged except that a
\* citation marker became its display marker; also when it belongs to a
\* section that follows a reference heading in the middle of the report.
C39_OnlyCitationsAndReferencesChange ==
    (ct # None /\ ct[1].pc # "generated")
    => \A p \in 1..Len(ct[1].report) :
          ~InReferenceList(ct[1].report, p)
          => /\ p <= Len(ct[1].formatted)
             /\ ct[1].formatted[p] = replace(ct[1].report[p], ct[1].id_to_num)

----------------------------------------------------------------------------
\* CompileSpec: compiler_node from the result store to the final report: the
\* source catalogue is gathered, then the report, which cites sources of the
\* stored answers, goes through _format_citations with that catalogue.

\* The ids of all sources of the stored answers.
StoredSourceIds(answers) ==
    UNION {{answers[q].sources[j].id : j \in 1..Len(answers[q].sources)} :
             q \in 1..Len(answers)}

\* A generated report that cites exactly the given source ids.
CitingReport(ids) ==
    LET ordered == sorted_ids(ids)
    IN  [i \in 1..Len(ordered) |-> Marker(ordered[i])]

CompileInit == CatalogueInit

\* compile_report: the generated sections cite sources of the stored answers;
\* the report is formatted with the gathered catalogue.
CompileReport ==
    /\ cg # None
    /\ cg[1].pc = "gathered"
    /\ ct = None
    /\ \E cited \in SUBSET StoredSourceIds(cg[1].question_answers) :
          LET report == CitingReport(cited)
              sources == {cg[1].all_sources[i].id : i \in 1..Len(cg[1].all_sources)}
          IN  ct' = Some([pc |-> "formatted", report |-> report,
                          sources |-> sources,
                          id_to_num |-> id_to_num(report),
                          formatted |-> _format_citations(report, sources),
                          reformatted |-> <<>>])
    /\ UNCHANGED <<run, tk, rk, cg, rt, pl, mg, sr>>

CompileNext == GatherSources \/ CompileReport

CompileSpec == CompileInit /\ [][CompileNext]_vars

\* The stored answers are as research tasks return them: every source carries
\* a url and no two sources of one answer share a url.
StoredSourcesAsReturned ==
    \A q \in 1..Len(cg[1].question_answers) :
        /\ DistinctUrls(cg[1].question_answers[q].sources)
        /\ NoUrl \notin UrlsOfSources(cg[1].question_answers[q].sources)

\* C40 (for a result store whose answers are as research tasks return them):
\* every display number that appears as an inline citation of the final report
\* has an entry with that number in the appended reference list, also when the
\* cited source is not in the catalogue because another question's source with
\* the same url was gathered first.
C40_EveryCitationHasReference ==
    (ct # None /\ ct[1].pc = "formatted" /\ cg # None /\ StoredSourcesAsReturned)
    => \A p \in 1..Len(ct[1].formatted) :
          ct[1].formatted[p].kind = "number"
          => \E r \in 1..Len(ct[1].formatted) :
                /\ ct[1].formatted[r].kind = "entry"
                /\ ct[1].formatted[r].num = ct[1].formatted[p].num

====
